---------------------------- MODULE Spec2Model ----------------------------
(***************************************************************************)
(* A model of the Contribution-Graph-Pop-Quiz bot's core: the SQLite store *)
(* (storage.py), the streak state machine built on it, and the reminder    *)
(* schedule that main.py keeps in the job queue.                           *)
(*                                                                         *)
(* Texts are sequences of one-character strings, so that parsing a date    *)
(* text and formatting a date are real conversions.  None is the empty     *)
(* sequence: no text the program stores is empty.                          *)
(***************************************************************************)
EXTENDS Integers, Sequences, FiniteSets, Bags, TLC

VARIABLES
    results,         \* table results: sequence of rows [chat, user, correct]
    daily_progress,  \* table daily_progress: (chat, user, day) -> count, rows absent when not in DOMAIN
    streaks,         \* table streaks: (chat, user) -> [current_streak, best_streak, last_day]
    user_prefs,      \* table user_prefs: (chat, user) -> [notify_hour, notify_minute, tz]
    user_names,      \* table user_names: (chat, user) -> display name
    jobs,            \* the job queue's scheduled jobs, a bag of job records
    disabled,        \* the (chat, user) whose last /notify or /unnotify that took effect was /unnotify
    user_data,       \* the user ids whose context.user_data holds a pending question under "cs_q"
    mcq,             \* generate_mcq_for_date while it runs: its arguments and its locals
    conns,           \* concurrent callers of inc_daily_count: each one's place, connection view, result
    writer,          \* the caller whose connection holds the database's write lock, 0 when free
    disk,            \* the files: what DB_PATH and its .corrupt sibling hold, who locks them, the schema
    boot,            \* init_db: where it is, its attempts so far, and what it found and met
    call,            \* the last operation: its name, arguments, result and transaction trace
    marked,          \* per key, what the completed mark_day_complete calls were given so far
    past             \* per key, what the callers that returned were told: the reminder last set,
                     \* and how many results, correct ones and all, were recorded; per key
                     \* and day, how often the day's commits were called for

tables == <<results, daily_progress, streaks, user_prefs, user_names>>
sched == <<jobs, disabled, user_data>>
conc == <<conns, writer>>
host == <<disk, boot>>
vars == <<results, daily_progress, streaks, user_prefs, user_names, jobs, disabled, user_data, mcq, conns, writer,
         disk, boot, call, marked, past>>

(***************************************************************************)
(* Bounds of the model.                                                    *)
(***************************************************************************)
NumDays == 4         \* how many days of Calendar the callers pass
MaxCount == 2        \* inc_daily_count is called while a day's count is below this
MaxResults == 2      \* record_result is called while the log is shorter than this
NumCallers == 3      \* concurrent callers of inc_daily_count
MaxAnswered == 6     \* in SpecFire, inc_daily_count is called while a day's count is below this
MaxEvents == 3       \* in SpecScore, record_result is called while the log is shorter than this
MaxProbes == 1       \* /notify is called while fewer than this many test jobs wait in the queue

(***************************************************************************)
(* Texts.                                                                  *)
(***************************************************************************)
None == << >>

Digits == <<"0", "1", "2", "3", "4", "5", "6", "7", "8", "9">>

IsDigit(c) == \E i \in 1..10 : Digits[i] = c

DigitVal(c) == (CHOOSE i \in 1..10 : Digits[i] = c) - 1

\* str.split(sep): the fields between the separators, at least one field
RECURSIVE SplitFrom(_, _, _, _)
SplitFrom(s, sep, i, field) ==
    IF i > Len(s) THEN <<field>>
    ELSE IF s[i] = sep THEN <<field>> \o SplitFrom(s, sep, i + 1, << >>)
    ELSE SplitFrom(s, sep, i + 1, Append(field, s[i]))

SplitOn(s, sep) == SplitFrom(s, sep, 1, << >>)

Split(s) == SplitOn(s, "-")

\* the text of a field after its sign, when it has one
Unsigned(f) == IF Len(f) > 0 /\ f[1] \in {"+", "-"} THEN Tail(f) ELSE f

\* int(text) of a field: an optional sign and a non-empty run of decimal digits, else
\* ValueError (the text has no blanks around it and no "_" between its digits)
IntOk(f) == Len(Unsigned(f)) > 0 /\ \A i \in 1..Len(Unsigned(f)) : IsDigit(Unsigned(f)[i])

RECURSIVE NatOf(_)
NatOf(f) ==
    IF Len(f) = 0 THEN 0
    ELSE 10 * NatOf(SubSeq(f, 1, Len(f) - 1)) + DigitVal(f[Len(f)])

IntOf(f) == IF Len(f) > 0 /\ f[1] = "-" THEN 0 - NatOf(Tail(f)) ELSE NatOf(Unsigned(f))

\* the decimal digits of a natural number
RECURSIVE Decimal(_)
Decimal(n) == IF n < 10 THEN <<Digits[n + 1]>> ELSE Append(Decimal(n \div 10), Digits[(n % 10) + 1])

RECURSIVE Zeros(_)
Zeros(k) == IF k <= 0 THEN << >> ELSE <<"0">> \o Zeros(k - 1)

\* "%0<w>d" of a natural number
Pad(n, w) == Zeros(w - Len(Decimal(n))) \o Decimal(n)

\* str(n), as an f-string formats an int
str(n) == IF n < 0 THEN <<"-">> \o Decimal(0 - n) ELSE Decimal(n)

\* s.startswith(prefix)
startswith(s, prefix) == Len(s) >= Len(prefix) /\ SubSeq(s, 1, Len(prefix)) = prefix

(***************************************************************************)
(* datetime.date: construction, one day back, isoformat.                   *)
(***************************************************************************)
IsLeap(y) == y % 4 = 0 /\ (y % 100 # 0 \/ y % 400 = 0)

DaysInMonth(y, m) ==
    IF m = 2 THEN (IF IsLeap(y) THEN 29 ELSE 28)
    ELSE IF m \in {4, 6, 9, 11} THEN 30 ELSE 31

\* date(y, m, d) raises ValueError outside these ranges
DateOk(y, m, d) ==
    /\ 1 <= y /\ y <= 9999
    /\ 1 <= m /\ m <= 12
    /\ 1 <= d /\ d <= DaysInMonth(y, m)

\* date - timedelta(days=1); date.min has no day before it (OverflowError)
DayBeforeOk(dt) == ~(dt.y = 1 /\ dt.m = 1 /\ dt.d = 1)

DayBefore(dt) ==
    IF dt.d > 1 THEN [y |-> dt.y, m |-> dt.m, d |-> dt.d - 1]
    ELSE IF dt.m > 1 THEN [y |-> dt.y, m |-> dt.m - 1, d |-> DaysInMonth(dt.y, dt.m - 1)]
    ELSE [y |-> dt.y - 1, m |-> 12, d |-> 31]

isoformat(dt) == Pad(dt.y, 4) \o <<"-">> \o Pad(dt.m, 2) \o <<"-">> \o Pad(dt.d, 2)

\* _iso_to_date: y, m, d = s.split("-"); date(int(y), int(m), int(d))
_iso_to_date_ok(s) ==
    LET f == Split(s) IN
    /\ Len(f) = 3
    /\ \A i \in 1..3 : IntOk(f[i])
    /\ DateOk(IntOf(f[1]), IntOf(f[2]), IntOf(f[3]))

_iso_to_date(s) ==
    LET f == Split(s) IN [y |-> IntOf(f[1]), m |-> IntOf(f[2]), d |-> IntOf(f[3])]

(***************************************************************************)
(* The inputs callers pass.                                                *)
(***************************************************************************)
\* (chat_id, user_id) pairs
Keys == {<<1, 21>>, <<12, 1>>}

\* the key whose streak Spec follows
StreakKey == <<1, 21>>

\* the keys SpecStore calls with
StoreKeys == {<<12, 1>>}

\* six consecutive calendar days, written out; callers pass the first NumDays
Calendar ==
    << <<"2", "0", "2", "3", "-", "1", "2", "-", "3", "1">>,
       <<"2", "0", "2", "4", "-", "0", "1", "-", "0", "1">>,
       <<"2", "0", "2", "4", "-", "0", "1", "-", "0", "2">>,
       <<"2", "0", "2", "4", "-", "0", "1", "-", "0", "3">>,
       <<"2", "0", "2", "4", "-", "0", "1", "-", "0", "4">>,
       <<"2", "0", "2", "4", "-", "0", "1", "-", "0", "5">> >>

CalendarDays == {Calendar[i] : i \in 1..NumDays}

IsCalendarDay(t) == \E i \in 1..Len(Calendar) : Calendar[i] = t

CalendarIndex(t) == CHOOSE i \in 1..Len(Calendar) : Calendar[i] = t

\* 2024-1-2: the day 2024-01-02 without the zero padding (it parses)
ShortDay == <<"2", "0", "2", "4", "-", "1", "-", "2">>

\* texts _iso_to_date rejects: 2 fields, a letter, an empty field, 30 February
BadDays ==
    { <<"2", "0", "2", "4", "-", "0", "1">>,
      <<"2", "0", "2", "4", "-", "0", "1", "-", "x">>,
      <<"2", "0", "2", "4", "-", "-", "0", "1">>,
      <<"2", "0", "2", "3", "-", "0", "2", "-", "3", "0">> }

DayTexts == CalendarDays \cup {ShortDay} \cup BadDays

(***************************************************************************)
(* The store: tables and the transaction scope _db.                        *)
(***************************************************************************)
EmptyTable == [k \in {} |-> None]

DB == [results |-> results, daily_progress |-> daily_progress, streaks |-> streaks,
       user_prefs |-> user_prefs, user_names |-> user_names]

EmptyDB == [results |-> << >>, daily_progress |-> EmptyTable, streaks |-> EmptyTable,
            user_prefs |-> EmptyTable, user_names |-> EmptyTable]

\* INSERT ... ON CONFLICT(key) DO UPDATE SET every non-key column = excluded
Upsert(t, k, row) == [x \in (DOMAIN t) \cup {k} |-> IF x = k THEN row ELSE t[x]]

\* what the body of a "with _db() as conn" block did: the connection's view of the
\* tables after its statements, the value returned, the exception raised ("none")
Work(db, ret, exc) == [db |-> db, ret |-> ret, exc |-> exc]

\* exceptions that "except Exception" catches; GeneratorExit and KeyboardInterrupt
\* derive from BaseException only
IsException(e) == e \in {"ValueError", "OverflowError", "OperationalError", "TypeError"}

\* _db without its rollback: what the block wrote stays
_db_KeepsWork(db, w, commit_ok) ==
    IF w.exc = "none" /\ commit_ok
    THEN [db |-> w.db, ret |-> w.ret, raised |-> "none", trace |-> <<"connect", "commit", "close">>]
    ELSE [db |-> w.db, ret |-> None,
          raised |-> IF w.exc = "none" THEN "OperationalError" ELSE w.exc,
          trace |-> <<"connect", "rollback", "close">>]

\* _db: yield conn; commit / except Exception: rollback, raise / finally: close.
\* commit_ok: whether conn.commit() succeeds.  Closing a connection with an open
\* transaction discards its changes.
_db(db, w, commit_ok) ==
    IF w.exc = "none" THEN
        IF commit_ok
        THEN [db |-> w.db, ret |-> w.ret, raised |-> "none",
              trace |-> <<"connect", "commit", "close">>]
        ELSE [db |-> db, ret |-> None, raised |-> "OperationalError",
              trace |-> <<"connect", "commit_failed", "rollback", "close">>]
    ELSE IF IsException(w.exc)
        THEN [db |-> db, ret |-> None, raised |-> w.exc,
              trace |-> <<"connect", "rollback", "close">>]
        ELSE [db |-> db, ret |-> None, raised |-> w.exc,
              trace |-> <<"connect", "close">>]

(***************************************************************************)
(* Streaks.                                                                *)
(***************************************************************************)
\* the SELECT of mark_day_complete and get_streak, with the defaults for no row
StreakRow(db, k) ==
    IF k \in DOMAIN db.streaks THEN db.streaks[k]
    ELSE [current_streak |-> 0, best_streak |-> 0, last_day |-> None]

max(a, b) == IF a >= b THEN a ELSE b

\* "if last == day: return current, best, last"
IsRepeat_Never(last, day) == FALSE

IsRepeat(last, day) == last = day

\* "if last and last == yesterday: current += 1 else: current = 1"
NextCurrent_NeverIncrement(current, last, yesterday) == 1

NextCurrent_IgnoreGap(current, last, yesterday) == current + 1

NextCurrent(current, last, yesterday) ==
    IF last # None /\ last = yesterday THEN current + 1 ELSE 1

NextBest_One(best, current) == 1

NextBest_TrackCurrent(best, current) == current

NextBest_KeepBest(best, current) == best

NextBest(best, current) == max(best, current)

\* the sqlite3 call of an operation that raises OperationalError (disk full, I/O
\* error): none, its first or second execute, or the commit
Faults == {"none", "stmt1", "stmt2", "commit"}

Failed(db) == Work(db, None, "OperationalError")

\* the body of mark_day_complete's with block
mark_day_complete_work(db, k, day, fault) ==
    LET row == StreakRow(db, k)
        current == row.current_streak
        best == row.best_streak
        last == row.last_day
    IN  IF fault = "stmt1" THEN Failed(db)
        ELSE IF IsRepeat(last, day) THEN Work(db, <<current, best, last>>, "none")
        ELSE IF ~_iso_to_date_ok(day) THEN Work(db, None, "ValueError")
        ELSE IF ~DayBeforeOk(_iso_to_date(day)) THEN Work(db, None, "OverflowError")
        ELSE LET yesterday == isoformat(DayBefore(_iso_to_date(day)))
                 current2 == NextCurrent(current, last, yesterday)
                 best2 == NextBest(best, current2)
                 new == [current_streak |-> current2, best_streak |-> best2, last_day |-> day]
             IN  IF fault = "stmt2" THEN Failed(db)
                 ELSE Work([db EXCEPT !.streaks = Upsert(db.streaks, k, new)],
                           <<current2, best2, day>>, "none")

get_streak_work(db, k, fault) ==
    LET row == StreakRow(db, k)
    IN  IF fault = "stmt1" THEN Failed(db)
        ELSE Work(db, <<row.current_streak, row.best_streak, row.last_day>>, "none")

(***************************************************************************)
(* Quiz results.  The ts column (CURRENT_TIMESTAMP) is read by no query    *)
(* and is left out.                                                        *)
(***************************************************************************)
\* a record_result that also counts the answer towards the first day's quota
record_result_work_AndCount(db, k, is_correct, fault) ==
    IF fault = "stmt1" THEN Failed(db)
    ELSE Work([db EXCEPT !.results =
                   Append(@, [chat_id |-> k[1], user_id |-> k[2],
                              correct |-> IF is_correct THEN 1 ELSE 0]),
                         !.daily_progress = Upsert(@, <<k[1], k[2], Calendar[1]>>, 1)],
              None, "none")

record_result_work(db, k, is_correct, fault) ==
    IF fault = "stmt1" THEN Failed(db)
    ELSE Work([db EXCEPT !.results =
                   Append(@, [chat_id |-> k[1], user_id |-> k[2],
                              correct |-> IF is_correct THEN 1 ELSE 0])],
              None, "none")

\* sums over all rows, whatever their key
ScoreOf_AllKeys(rows, k) == <<Cardinality({i \in 1..Len(rows) : rows[i].correct = 1}), Len(rows)>>

\* SUM(correct) and COUNT(*) over the rows WHERE chat_id=? AND user_id=?
RECURSIVE ScoreOf(_, _)
ScoreOf(rows, k) ==
    IF Len(rows) = 0 THEN <<0, 0>>
    ELSE LET rest == ScoreOf(Tail(rows), k)
             r == Head(rows)
         IN  IF r.chat_id = k[1] /\ r.user_id = k[2]
             THEN <<rest[1] + r.correct, rest[2] + 1>>
             ELSE rest

get_score_work(db, k, fault) ==
    IF fault = "stmt1" THEN Failed(db) ELSE Work(db, ScoreOf(db.results, k), "none")

(***************************************************************************)
(* Daily progress.                                                         *)
(***************************************************************************)
DailyKey(k, day) == <<k[1], k[2], day>>

CountOf_OneWhenAbsent(db, k, day) ==
    IF DailyKey(k, day) \in DOMAIN db.daily_progress
    THEN db.daily_progress[DailyKey(k, day)] ELSE 1

\* SELECT count ...; "int(row["count"]) if row else 0"
CountOf(db, k, day) ==
    IF DailyKey(k, day) \in DOMAIN db.daily_progress
    THEN db.daily_progress[DailyKey(k, day)] ELSE 0

get_daily_count_work(db, k, day, fault) ==
    IF fault = "stmt1" THEN Failed(db) ELSE Work(db, CountOf(db, k, day), "none")

\* INSERT ... VALUES (?,?,?,1) ON CONFLICT DO UPDATE SET count = count + 1
UpsertCount_AlwaysOne(db, k, day) == 1

\* an upsert that stops counting at the daily quota
UpsertCount_StopsAtQuota(db, k, day) ==
    IF DailyKey(k, day) \in DOMAIN db.daily_progress
    THEN (IF db.daily_progress[DailyKey(k, day)] >= 5 THEN db.daily_progress[DailyKey(k, day)]
          ELSE db.daily_progress[DailyKey(k, day)] + 1)
    ELSE 1

UpsertCount(db, k, day) ==
    IF DailyKey(k, day) \in DOMAIN db.daily_progress
    THEN db.daily_progress[DailyKey(k, day)] + 1 ELSE 1

\* the first execute of inc_daily_count: the upsert
inc_daily_count_upsert(db, k, day) ==
    [db EXCEPT !.daily_progress = Upsert(@, DailyKey(k, day), UpsertCount(db, k, day))]

inc_daily_count_work(db, k, day, fault) ==
    IF fault = "stmt1" THEN Failed(db)
    ELSE LET db1 == inc_daily_count_upsert(db, k, day)
         IN  IF fault = "stmt2" THEN Failed(db1)
             ELSE Work(db1, CountOf(db1, k, day), "none")

(***************************************************************************)
(* Names and prefs.  A nullable column holds << >> (NULL) or <<value>>.    *)
(***************************************************************************)
Null == << >>

Val(v) == <<v>>

\* an upsert that sets the time and keeps the zone name of the row it finds
set_notify_time_work_KeepZone(db, k, hour, minute, tz, fault) ==
    IF fault = "stmt1" THEN Failed(db)
    ELSE Work([db EXCEPT !.user_prefs =
                   Upsert(@, k, [notify_hour |-> Val(hour), notify_minute |-> Val(minute),
                                 tz |-> IF k \in DOMAIN @ THEN @[k].tz ELSE Val(tz)])],
              None, "none")

set_notify_time_work(db, k, hour, minute, tz, fault) ==
    IF fault = "stmt1" THEN Failed(db)
    ELSE Work([db EXCEPT !.user_prefs =
                   Upsert(@, k, [notify_hour |-> Val(hour), notify_minute |-> Val(minute),
                                 tz |-> Val(tz)])],
              None, "none")

get_notify_time_work(db, k, fault) ==
    IF fault = "stmt1" THEN Failed(db)
    ELSE IF k \notin DOMAIN db.user_prefs THEN Work(db, None, "none")
    ELSE LET row == db.user_prefs[k]
         IN  IF row.notify_hour = Null \/ row.notify_minute = Null
             THEN Work(db, None, "TypeError")
             ELSE Work(db, <<row.notify_hour[1], row.notify_minute[1],
                             IF row.tz = Null THEN None ELSE row.tz[1]>>, "none")

set_user_name_work(db, k, display_name, fault) ==
    IF fault = "stmt1" THEN Failed(db)
    ELSE Work([db EXCEPT !.user_names = Upsert(@, k, display_name)], None, "none")

(***************************************************************************)
(* The leaderboard.                                                        *)
(***************************************************************************)
Ahead_ByUser(a, b) == a.user_id < b.user_id

\* ORDER BY s.current_streak DESC, s.best_streak DESC, s.user_id ASC: a comes before b
Ahead(a, b) ==
    \/ a.current_streak > b.current_streak
    \/ a.current_streak = b.current_streak /\ a.best_streak > b.best_streak
    \/ a.current_streak = b.current_streak /\ a.best_streak = b.best_streak /\ a.user_id < b.user_id

RECURSIVE OrderBy(_)
OrderBy(rows) ==
    IF rows = {} THEN << >>
    ELSE LET first == CHOOSE a \in rows : \A b \in rows \ {a} : Ahead(a, b)
         IN  <<first>> \o OrderBy(rows \ {first})

\* LIMIT ?: the first n rows; a negative n is no limit
Limit(rows, n) == IF n < 0 \/ n >= Len(rows) THEN rows ELSE SubSeq(rows, 1, n)

\* printf('User %d', s.user_id)
Placeholder(user_id) == <<"U", "s", "e", "r", " ">> \o str(user_id)

\* FROM streaks s ... WHERE s.chat_id = ?
StreaksOf(db, chat_id) ==
    {[user_id |-> k[2], current_streak |-> db.streaks[k].current_streak,
      best_streak |-> db.streaks[k].best_streak] : k \in {x \in DOMAIN db.streaks : x[1] = chat_id}}

\* LEFT JOIN user_names n ON n.chat_id = ? AND n.user_id = s.user_id; COALESCE
NameOf(db, chat_id, user_id) ==
    IF <<chat_id, user_id>> \in DOMAIN db.user_names THEN db.user_names[<<chat_id, user_id>>]
    ELSE Placeholder(user_id)

get_top_streaks_work(db, chat_id, limit, fault) ==
    LET rows == Limit(OrderBy(StreaksOf(db, chat_id)), limit) IN
    IF fault = "stmt1" THEN Failed(db)
    ELSE Work(db, [i \in 1..Len(rows) |-> <<rows[i].user_id, rows[i].current_streak, rows[i].best_streak,
                                            NameOf(db, chat_id, rows[i].user_id)>>],
              "none")

\* the rows of a query that only asks for notify_hour IS NOT NULL
NotifyRows_HourOnly(db) ==
    { <<k[1], k[2], db.user_prefs[k].notify_hour[1],
        IF db.user_prefs[k].notify_minute = Null THEN 0 ELSE db.user_prefs[k].notify_minute[1],
        IF db.user_prefs[k].tz = Null THEN "" ELSE db.user_prefs[k].tz[1]>> :
      k \in { x \in DOMAIN db.user_prefs : db.user_prefs[x].notify_hour # Null } }

\* the rows iter_all_notify_prefs selects: no column NULL
NotifyRows(db) ==
    { <<k[1], k[2], db.user_prefs[k].notify_hour[1], db.user_prefs[k].notify_minute[1],
        db.user_prefs[k].tz[1]>> :
      k \in { x \in DOMAIN db.user_prefs :
                  /\ db.user_prefs[x].notify_hour # Null
                  /\ db.user_prefs[x].notify_minute # Null
                  /\ db.user_prefs[x].tz # Null } }

\* the orders in which a query without ORDER BY may return a set of rows
Orderings(S) ==
    { f \in [1..Cardinality(S) -> S] : \A i, j \in 1..Cardinality(S) : f[i] = f[j] => i = j }

\* iter_all_notify_prefs is a generator: its with block runs while the consumer
\* pulls.  pulls > number of rows: the consumer exhausts it and the block ends;
\* otherwise the consumer drops it after that many rows and the generator is closed
\* at its yield (GeneratorExit).
iter_all_notify_prefs_work(db, order, pulls, fault) ==
    IF fault = "stmt1" THEN Failed(db)
    ELSE IF pulls > Len(order) THEN Work(db, order, "none")
    ELSE Work(db, SubSeq(order, 1, pulls), "GeneratorExit")

(***************************************************************************)
(* The database file and init_db.  disk.db is what the file at DB_PATH     *)
(* holds: "absent", "sqlite" (a database that passes integrity_check) or   *)
(* "garbage"; disk.sibling is what DB_PATH.corrupt holds, "stale" for a    *)
(* file an earlier recovery left; disk.locked names the files another      *)
(* process keeps open so that removing or renaming them raises             *)
(* PermissionError; disk.schema maps each table of the file to its columns.*)
(***************************************************************************)
RotateTries == 5

RemoveTries == 5

TableNames == <<"results", "daily_progress", "streaks", "user_prefs", "user_names">>

\* required_cols of _create_or_migrate_schema, which are the columns of the CREATE TABLE
RequiredCols(table) ==
    IF table = "results" THEN {"chat_id", "user_id", "ts", "correct"}
    ELSE IF table = "daily_progress" THEN {"chat_id", "user_id", "day", "count"}
    ELSE IF table = "streaks" THEN {"chat_id", "user_id", "current_streak", "best_streak", "last_day"}
    ELSE IF table = "user_prefs" THEN {"chat_id", "user_id", "notify_hour", "notify_minute", "tz"}
    ELSE {"chat_id", "user_id", "display_name"}

FullSchema == [t \in {TableNames[i] : i \in 1..Len(TableNames)} |-> RequiredCols(t)]

NoSchema == [t \in {} |-> {}]

\* a table without rows
NoRows(table) == IF table = "results" THEN << >> ELSE EmptyTable

\* "if not need.issubset(have)"
Stale_Never(have, need) == FALSE

Stale_Always(have, need) == TRUE

Stale(have, need) == ~(need \subseteq have)

\* _ensure_table_with_schema on st = [schema, db]: create a missing table, drop and
\* create one that lacks a required column, leave any other as it is
_ensure_table_with_schema(st, table) ==
    IF table \notin DOMAIN st.schema
    THEN [schema |-> [t \in (DOMAIN st.schema) \cup {table} |->
                         IF t = table THEN RequiredCols(table) ELSE st.schema[t]],
          db |-> [st.db EXCEPT ![table] = NoRows(table)]]
    ELSE IF Stale(st.schema[table], RequiredCols(table))
    THEN [schema |-> [st.schema EXCEPT ![table] = RequiredCols(table)],
          db |-> [st.db EXCEPT ![table] = NoRows(table)]]
    ELSE st

\* _create_or_migrate_schema: the five tables in the order of the code, from the i-th
RECURSIVE _create_or_migrate_schema(_, _)
_create_or_migrate_schema(st, i) ==
    IF i > Len(TableNames) THEN st
    ELSE _create_or_migrate_schema(_ensure_table_with_schema(st, TableNames[i]), i + 1)

\* _integrity_ok: the file exists, opens read-only, and integrity_check answers ok;
\* busy: opening or checking raises (the except returns False)
_integrity_ok(content, busy) == content = "sqlite" /\ ~busy

\* "if not _try_rotate_or_remove(): raise sqlite3.DatabaseError(...)"
AfterRecovery_GoOn(handled) == "connect"

AfterRecovery(handled) == IF handled THEN "connect" ELSE "failed"

\* "for i in range(5)": whether try i (from 0) was the last one
LastTry_Never(i, tries) == FALSE

LastTry(i, tries) == i + 1 >= tries

\* the files and schema after init_db on a machine without a database file
Installed == [db |-> "sqlite", sibling |-> "absent", locked |-> {}, schema |-> FullSchema]

\* init_db not running: pc is its place, i the loop variable, renames and deletes the
\* passes so far, found what the probe saw and whether it answered ok, met what the
\* passes ran into, locked_all whether every pass so far found the database file locked,
\* opened whether it connected, again whether the run before this one returned
NoBoot == [pc |-> "down", i |-> 0, renames |-> 0, deletes |-> 0,
           found |-> [db |-> "absent", sibling |-> "absent", schema |-> NoSchema, ok |-> FALSE],
           met |-> {}, locked_all |-> TRUE, opened |-> FALSE, again |-> FALSE]

Booted == [NoBoot EXCEPT !.pc = "up", !.opened = TRUE]

(***************************************************************************)
(* Operations as actions.  Every operation records itself in call: its     *)
(* name, key and argument, what the key held before, what the caller got   *)
(* (ret, raised) and what its connection did (trace).                      *)
(***************************************************************************)
\* the tables become those of transaction outcome r
Persist(r) ==
    /\ results' = r.db.results
    /\ daily_progress' = r.db.daily_progress
    /\ streaks' = r.db.streaks
    /\ user_prefs' = r.db.user_prefs
    /\ user_names' = r.db.user_names

Called(op, k, arg, fault, before, r) ==
    call' = [op |-> op, key |-> k, arg |-> arg, fault |-> fault, before |-> before,
             ret |-> r.ret, raised |-> r.raised, trace |-> r.trace]

\* with _db() as conn: <work>
Transact(w, fault) == _db(DB, w, fault # "commit")

\* what marked records of a completed mark_day_complete(k, day)
MarkedAfter(m, day) ==
    [days |-> m.days \cup {day},
     prev |-> day,
     run  |-> IF m.run = 0 /\ IsCalendarDay(day) THEN 1
              ELSE IF /\ m.run > 0
                      /\ IsCalendarDay(day)
                      /\ CalendarIndex(day) = CalendarIndex(m.prev) + 1
                   THEN m.run + 1
              ELSE -1]

MarkDayComplete(k, day, fault) ==
    LET r == Transact(mark_day_complete_work(DB, k, day, fault), fault) IN
    /\ Persist(r)
    /\ Called("mark_day_complete", k, day, fault, [row |-> StreakRow(DB, k), days |-> marked[k].days], r)
    /\ marked' = IF r.raised = "none"
                 THEN [marked EXCEPT ![k] = MarkedAfter(marked[k], day)]
                 ELSE marked
    /\ UNCHANGED <<sched, conc, past, host, mcq>>

GetStreak(k, fault) ==
    LET r == Transact(get_streak_work(DB, k, fault), fault) IN
    /\ Persist(r)
    /\ Called("get_streak", k, None, fault, [row |-> StreakRow(DB, k), days |-> marked[k].days], r)
    /\ UNCHANGED <<sched, conc, marked, past, host, mcq>>

\* past, after a set_notify_time(k, hour, minute, tz) that returned
Told(p, k, hour, minute, tz) == [p EXCEPT !.told = Upsert(@, k, <<hour, minute, tz>>)]

\* past, after a record_result(k, is_correct) that returned
Scored(p, k, is_correct) ==
    LET was == IF k \in DOMAIN p.scored THEN p.scored[k] ELSE <<0, 0>> IN
    [p EXCEPT !.scored = Upsert(@, k, <<was[1] + (IF is_correct THEN 1 ELSE 0), was[2] + 1>>)]

\* record_result, called while the log is shorter than bound
RecordResultBelow(k, is_correct, fault, bound) ==
    LET r == Transact(record_result_work(DB, k, is_correct, fault), fault) IN
    /\ Len(results) < bound
    /\ Persist(r)
    /\ Called("record_result", k, is_correct, fault, None, r)
    /\ past' = IF r.raised = "none" THEN Scored(past, k, is_correct) ELSE past
    /\ UNCHANGED <<sched, conc, marked, host, mcq>>

RecordResult(k, is_correct, fault) == RecordResultBelow(k, is_correct, fault, MaxResults)

GetScore(k, fault) ==
    LET r == Transact(get_score_work(DB, k, fault), fault) IN
    /\ Persist(r)
    /\ Called("get_score", k, None, fault, None, r)
    /\ UNCHANGED <<sched, conc, marked, past, host, mcq>>

GetDailyCount(k, day, fault) ==
    LET r == Transact(get_daily_count_work(DB, k, day, fault), fault) IN
    /\ Persist(r)
    /\ Called("get_daily_count", k, day, fault, CountOf(DB, k, day), r)
    /\ UNCHANGED <<sched, conc, marked, past, host, mcq>>

\* inc_daily_count, called while the day's count is below bound
IncDailyCountBelow(k, day, fault, bound) ==
    LET r == Transact(inc_daily_count_work(DB, k, day, fault), fault) IN
    /\ CountOf(DB, k, day) < bound
    /\ Persist(r)
    /\ Called("inc_daily_count", k, day, fault, CountOf(DB, k, day), r)
    /\ UNCHANGED <<sched, conc, marked, past, host, mcq>>

IncDailyCount(k, day, fault) == IncDailyCountBelow(k, day, fault, MaxCount)

SetNotifyTime(k, hour, minute, tz, fault) ==
    LET r == Transact(set_notify_time_work(DB, k, hour, minute, tz, fault), fault) IN
    /\ Persist(r)
    /\ Called("set_notify_time", k, <<hour, minute, tz>>, fault, None, r)
    /\ past' = IF r.raised = "none" THEN Told(past, k, hour, minute, tz) ELSE past
    /\ UNCHANGED <<sched, conc, marked, host, mcq>>

GetNotifyTime(k, fault) ==
    LET r == Transact(get_notify_time_work(DB, k, fault), fault) IN
    /\ Persist(r)
    /\ Called("get_notify_time", k, None, fault, None, r)
    /\ UNCHANGED <<sched, conc, marked, past, host, mcq>>

GetTopStreaks(chat_id, limit, fault) ==
    LET r == Transact(get_top_streaks_work(DB, chat_id, limit, fault), fault) IN
    /\ Persist(r)
    /\ Called("get_top_streaks", <<chat_id, 0>>, limit, fault, None, r)
    /\ UNCHANGED <<sched, conc, marked, past, host, mcq>>

\* "if not display_name: return" comes before the with block: no transaction
SetUserName(k, display_name, fault) ==
    LET r == IF display_name = ""
             THEN [db |-> DB, ret |-> None, raised |-> "none", trace |-> << >>]
             ELSE Transact(set_user_name_work(DB, k, display_name, fault), fault)
    IN
    /\ Persist(r)
    /\ Called("set_user_name", k, display_name, fault, None, r)
    /\ UNCHANGED <<sched, conc, marked, past, host, mcq>>

\* A consumer of iter_all_notify_prefs() that pulls `pulls` times.  Nothing runs
\* before the first pull.  The consumer keeps the rows it was given; closing the
\* generator raises nothing in the consumer.
IterAllNotifyPrefs(order, pulls, fault) ==
    LET w == iter_all_notify_prefs_work(DB, order, pulls, fault)
        t == Transact(w, fault)
        r == IF pulls = 0
             THEN [db |-> DB, ret |-> << >>, raised |-> "none", trace |-> << >>]
             ELSE [t EXCEPT !.ret = IF w.exc = "OperationalError" THEN << >> ELSE w.ret,
                            !.raised = IF @ = "GeneratorExit" THEN "none" ELSE @]
    IN
    /\ Persist(r)
    /\ Called("iter_all_notify_prefs", <<0, 0>>, pulls, fault, None, r)
    /\ UNCHANGED <<sched, conc, marked, past, host, mcq>>

(***************************************************************************)
(* Spec: the streak operations on one key, called in any order with any    *)
(* day text, with and without a failing commit.                            *)
(***************************************************************************)
NoCall == [op |-> "init", key |-> <<0, 0>>, arg |-> None, fault |-> "none", before |-> None, ret |-> None,
           raised |-> "none", trace |-> << >>]

\* no call of generate_mcq_for_date is running
NoMcq == [pc |-> "idle", contribs |-> << >>, pick_date |-> 0, correct |-> 0, offsets |-> {}]

NoPast == [told |-> EmptyTable, scored |-> EmptyTable, pushed |-> EmptyTable]

NoMarks == [k \in Keys |-> [days |-> {}, prev |-> None, run |-> 0]]

Init ==
    /\ results = << >>
    /\ daily_progress = EmptyTable
    /\ streaks = EmptyTable
    /\ user_prefs = EmptyTable
    /\ user_names = EmptyTable
    /\ jobs = EmptyBag
    /\ disabled = {}
    /\ user_data = {}
    /\ mcq = NoMcq
    /\ conns = << >>
    /\ writer = 0
    /\ disk = Installed
    /\ boot = Booted
    /\ call = NoCall
    /\ marked = NoMarks
    /\ past = NoPast

Next ==
    \/ \E day \in DayTexts, fault \in {"none", "commit"} : MarkDayComplete(StreakKey, day, fault)
    \/ \E fault \in {"none", "commit"} : GetStreak(StreakKey, fault)

Spec == Init /\ [][Next]_vars

(***************************************************************************)
(* SpecTracker: the Engagement Tracker's calls on two keys.                *)
(***************************************************************************)
TrackerDays == {Calendar[1], Calendar[2], <<"2", "0", "2", "4", "-", "0", "1">>}

CountDays == {Calendar[1]}

NextTracker ==
    \/ \E k \in Keys, day \in TrackerDays : MarkDayComplete(k, day, "none")
    \/ \E k \in Keys : GetStreak(k, "none")
    \/ \E k \in Keys, day \in CountDays : IncDailyCount(k, day, "none")
    \/ \E k \in Keys, day \in CountDays : GetDailyCount(k, day, "none")

SpecTracker == Init /\ [][NextTracker]_vars

(***************************************************************************)
(* SpecStore: every Store operation, with every failure of its sqlite3     *)
(* calls, and consumers of iter_all_notify_prefs that stop early.          *)
(***************************************************************************)
StoreDays == {Calendar[1], <<"2", "0", "2", "4", "-", "0", "1">>}

Hours == {7}

Minutes == {30}

\* zone names; the last one is not in the zone database
TzNames == {"Asia/Kolkata", "Mars/Phobos"}

DisplayNames == {"", "Ada"}

NextStore ==
    \/ \E k \in StoreKeys, day \in StoreDays, fault \in Faults : MarkDayComplete(k, day, fault)
    \/ \E k \in StoreKeys, fault \in Faults : GetStreak(k, fault)
    \/ \E k \in StoreKeys, c \in BOOLEAN, fault \in Faults : RecordResult(k, c, fault)
    \/ \E k \in StoreKeys, fault \in Faults : GetScore(k, fault)
    \/ \E k \in StoreKeys, day \in CountDays, fault \in Faults : IncDailyCount(k, day, fault)
    \/ \E k \in StoreKeys, day \in CountDays, fault \in Faults : GetDailyCount(k, day, fault)
    \/ \E k \in StoreKeys, h \in Hours, m \in Minutes, tz \in TzNames, fault \in Faults :
           SetNotifyTime(k, h, m, tz, fault)
    \/ \E k \in StoreKeys, fault \in Faults : GetNotifyTime(k, fault)
    \/ \E k \in StoreKeys, n \in DisplayNames, fault \in Faults : SetUserName(k, n, fault)
    \/ \E order \in Orderings(NotifyRows(DB)), pulls \in 0..(Cardinality(DOMAIN user_prefs) + 1),
          fault \in Faults : IterAllNotifyPrefs(order, pulls, fault)

SpecStore == Init /\ [][NextStore]_vars

(***************************************************************************)
(* The reminder schedule (main.py).  The job queue is a bag of jobs: each  *)
(* run_daily / run_once adds one, schedule_removal takes one out, and a    *)
(* one-shot job leaves the queue when it has run.  A job is                *)
(*   [name, callback, trigger, time, chat_id, data]                        *)
(* with time = <<hour, minute, zone>> for a daily job, <<delay>> for a     *)
(* one-shot job.                                                           *)
(***************************************************************************)
DAILY_CAP == 5

DEFAULT_TZ == "Asia/Kolkata"

TestDelay == 2

\* the names ZoneInfo() finds; for any other name it raises
ZoneNames == {"Asia/Kolkata", "Europe/Paris"}

\* what stands for the zone when ZoneInfo() raised
ZoneInfoNotFoundError == "ZoneInfoNotFoundError"

\* ZoneInfo(key)
ZoneInfo(key) == IF key \in ZoneNames THEN key ELSE ZoneInfoNotFoundError

\* safe_zoneinfo without its try/except
safe_zoneinfo_Unsafe(tzname) == ZoneInfo(tzname)

\* safe_zoneinfo: ZoneInfo(tzname), or ZoneInfo(DEFAULT_TZ) when that raises
safe_zoneinfo(tzname) ==
    IF ZoneInfo(tzname) # ZoneInfoNotFoundError THEN ZoneInfo(tzname) ELSE ZoneInfo(DEFAULT_TZ)

DailyPrefix == <<"d", "a", "i", "l", "y", "-">>

TestPrefix == <<"t", "e", "s", "t", "-">>

\* f"daily-{chat_id}-{user_id}"
JobName_ChatOnly(k) == DailyPrefix \o str(k[1])

JobName(k) == DailyPrefix \o str(k[1]) \o <<"-">> \o str(k[2])

\* job_queue.run_daily(_daily_job, time=dtime(hour, minute, tzinfo=tz), name, chat_id, data)
run_daily(q, hour, minute, tz, name, chat_id, data) ==
    q (+) SetToBag({[name |-> name, callback |-> "_daily_job", trigger |-> "daily",
                     time |-> <<hour, minute, tz>>, chat_id |-> chat_id, data |-> data]})

\* job_queue.run_once(_daily_job, when, name, chat_id, data)
run_once_Nothing(q, when, name, chat_id, data) == q

run_once(q, when, name, chat_id, data) ==
    q (+) SetToBag({[name |-> name, callback |-> "_daily_job", trigger |-> "once",
                     time |-> <<when>>, chat_id |-> chat_id, data |-> data]})

\* the queue without the jobs of set R
Without(q, R) == [j \in BagToSet(q) \ R |-> q[j]]

\* for j in job_queue.get_jobs_by_name(job_name): j.schedule_removal()
RemoveNamed_KeepAll(q, name) == q

RemoveNamed_All(q, name) == EmptyBag

RemoveNamed(q, name) == Without(q, {j \in BagToSet(q) : j.name = name})

\* for j in job_queue.jobs(): if j.name.startswith("daily-"): j.schedule_removal()
RemoveDaily_KeepAll(q) == q

RemoveDaily(q) == Without(q, {j \in BagToSet(q) : startswith(j.name, DailyPrefix)})

\* the loop of _reschedule_all_jobs over rows[i..]
RECURSIVE InstallAll(_, _, _)
InstallAll(q, rows, i) ==
    IF i > Len(rows) THEN q
    ELSE LET r == rows[i] IN
         InstallAll(run_daily(q, r[3], r[4], safe_zoneinfo(r[5]), JobName(<<r[1], r[2]>>), r[1],
                              [user_id |-> r[2], tz |-> r[5]]),
                    rows, i + 1)

\* _reschedule_all_jobs on queue q: the queue it leaves and how the iteration of
\* iter_all_notify_prefs() ended.  The generator raises at the first pull when its
\* query fails, and after the last row when its commit fails.
_reschedule_all_jobs(q, order, fault) ==
    LET t == Transact(iter_all_notify_prefs_work(DB, order, Len(order) + 1, fault), fault) IN
    [jobs |-> IF fault = "stmt1" THEN RemoveDaily(q) ELSE InstallAll(RemoveDaily(q), order, 1),
     r |-> [t EXCEPT !.ret = None]]

\* the call before this one was a _reschedule_all_jobs that returned (alone or from main)
Again == call.op \in {"_reschedule_all_jobs", "main"} /\ call.raised = "none"

\* what a call of _reschedule_all_jobs found: whether it follows another at once, and
\* if so the queue that one left
Found == [again |-> Again, jobs |-> IF Again THEN jobs ELSE EmptyBag]

RescheduleAllJobs(order, fault) ==
    LET o == _reschedule_all_jobs(jobs, order, fault) IN
    /\ jobs' = o.jobs
    /\ Persist(o.r)
    /\ UNCHANGED <<user_data, mcq>>
    /\ Called("_reschedule_all_jobs", <<0, 0>>, None, fault, Found, o.r)
    /\ UNCHANGED <<disabled, conc, marked, past, host>>

\* the process starts again: main() builds an Application, whose job queue and
\* user_data are empty, and calls _reschedule_all_jobs
Main(order, fault) ==
    LET o == _reschedule_all_jobs(EmptyBag, order, fault) IN
    /\ jobs' = o.jobs
    /\ UNCHANGED mcq
    /\ user_data' = {}
    /\ Persist(o.r)
    /\ Called("main", <<0, 0>>, None, fault, None, o.r)
    /\ UNCHANGED <<disabled, conc, marked, past, host>>

\* the parse without the assert
NotifyTimeOk_NoAssert(time_part) ==
    LET f == SplitOn(time_part, ":") IN
    /\ Len(f) = 2
    /\ IntOk(f[1]) /\ IntOk(f[2])

\* hour, minute = map(int, time_part.split(":")); assert 0 <= hour <= 23 and 0 <= minute <= 59
NotifyTimeOk(time_part) ==
    LET f == SplitOn(time_part, ":") IN
    /\ Len(f) = 2
    /\ IntOk(f[1]) /\ IntOk(f[2])
    /\ 0 <= IntOf(f[1]) /\ IntOf(f[1]) <= 23
    /\ 0 <= IntOf(f[2]) /\ IntOf(f[2]) <= 59

\* the handler's set_user_name(chat, user, _display_name(user)), which commits
NameSet(k, display_name) ==
    IF display_name = "" THEN [db |-> DB, ret |-> None, raised |-> "none", trace |-> << >>]
    ELSE _db(DB, set_user_name_work(DB, k, display_name, "none"), TRUE)

\* how many jobs of queue q have this name
NamedIn(q, name) == BagCardinality(Without(q, {j \in BagToSet(q) : j.name # name}))

\* how many one-shot jobs of queue q have not run yet
Waiting(q) == BagCardinality(Without(q, {j \in BagToSet(q) : j.trigger # "once"}))

\* /notify args: args[1] is HH:MM, args[2] the zone name when given
Notify(k, display_name, args, fault) ==
    LET r1 == NameSet(k, display_name)
        f == SplitOn(args[1], ":")
        hour == IntOf(f[1])
        minute == IntOf(f[2])
        tzname == IF Len(args) > 1 THEN args[2] ELSE DEFAULT_TZ
        tz == safe_zoneinfo(tzname)
        r2 == _db(r1.db, set_notify_time_work(r1.db, k, hour, minute, tzname, fault), fault # "commit")
        job_name == JobName(k)
        data == [user_id |-> k[2], tz |-> tzname]
        had == [daily |-> NamedIn(jobs, job_name), test |-> NamedIn(jobs, TestPrefix \o job_name)]
    IN
    IF Len(args) = 0 \/ ~NotifyTimeOk(args[1]) \/ tz = ZoneInfoNotFoundError
    THEN /\ Persist(r1)
         /\ Called("notify", k, args, fault, had,
                   [r1 EXCEPT !.ret = IF Len(args) = 0 THEN "usage" ELSE "invalid"])
         /\ UNCHANGED <<sched, conc, marked, past, host, mcq>>
    ELSE /\ Waiting(jobs) < MaxProbes
         /\ Persist(r2)
         /\ jobs' = IF r2.raised # "none" THEN jobs
                    ELSE run_once(run_daily(RemoveNamed(jobs, job_name), hour, minute, tz,
                                            job_name, k[1], data),
                                  TestDelay, TestPrefix \o job_name, k[1], data)
         /\ disabled' = IF r2.raised # "none" THEN disabled ELSE disabled \ {k}
         /\ UNCHANGED <<user_data, mcq>>
         /\ Called("notify", k, args, fault, had,
                   [r2 EXCEPT !.ret = IF r2.raised = "none" THEN "set" ELSE None,
                              !.trace = r1.trace \o r2.trace])
         /\ past' = IF r2.raised = "none" THEN Told(past, k, hour, minute, tzname) ELSE past
         /\ UNCHANGED <<conc, marked, host>>

\* /unnotify: removed is whether a job had the name
Unnotify(k, display_name) ==
    LET r1 == NameSet(k, display_name)
        job_name == JobName(k)
        removed == \E j \in BagToSet(jobs) : j.name = job_name
    IN
    /\ Persist(r1)
    /\ jobs' = RemoveNamed(jobs, job_name)
    /\ disabled' = disabled \cup {k}
    /\ UNCHANGED <<user_data, mcq>>
    /\ Called("unnotify", k, None, "none",
              [daily |-> NamedIn(jobs, job_name), test |-> NamedIn(jobs, TestPrefix \o job_name)],
              [r1 EXCEPT !.ret = removed])
    /\ UNCHANGED <<conc, marked, past, host>>

\* "if answered >= DAILY_CAP: return"
QuotaMet_Never(answered) == FALSE

QuotaMet(answered) == answered >= DAILY_CAP

\* job j runs _daily_job; today is the date _today_ymd(job.data["tz"]) gives, which
\* raises when safe_zoneinfo does.  A one-shot job has left the queue when it has run.
\* The question it asks is stored nowhere: the job's context has no user_data, and
\* application.user_data is a read-only mapping, no dict (_store_cs_question).
Fire(j, today, fault) ==
    LET r == IF safe_zoneinfo(j.data.tz) = ZoneInfoNotFoundError
             THEN [db |-> DB, ret |-> None, raised |-> ZoneInfoNotFoundError, trace |-> << >>]
             ELSE Transact(get_daily_count_work(DB, <<j.chat_id, j.data.user_id>>, today, fault), fault)
    IN
    /\ j \in BagToSet(jobs)
    /\ jobs' = IF j.trigger = "once" THEN jobs (-) SetToBag({j}) ELSE jobs
    /\ UNCHANGED <<user_data, mcq>>
    /\ Persist(r)
    /\ Called("_daily_job", <<j.chat_id, j.data.user_id>>, today, fault,
              CountOf(DB, <<j.chat_id, j.data.user_id>>, today),
              [r EXCEPT !.ret = IF r.raised = "none" THEN (IF QuotaMet(r.ret) THEN "quota" ELSE "ask")
                                ELSE None])
    /\ UNCHANGED <<disabled, conc, marked, past, host>>

(***************************************************************************)
(* SpecSched: /notify and /unnotify of two users, jobs running, restarts   *)
(* of the process, and _reschedule_all_jobs on whatever the queue holds.   *)
(***************************************************************************)
NotifyArgs ==
    { << >>,
      << <<"0", "7", ":", "3", "0">> >>,
      << <<"2", "3", ":", "0", "5">>, "Europe/Paris" >>,
      << <<"0", "7", ":", "3", "0">>, "Mars/Phobos" >>,
      << <<"2", "4", ":", "0", "0">> >>,
      << <<"7">> >> }

SchedFaults == {"none", "stmt1", "commit"}

NextSched ==
    \/ \E k \in Keys, args \in NotifyArgs, fault \in {"none", "commit"} : Notify(k, "Ada", args, fault)
    \/ \E k \in Keys : Unnotify(k, "Ada")
    \/ \E j \in BagToSet(jobs) : Fire(j, Calendar[2], "none")
    \/ \E order \in Orderings(NotifyRows(DB)), fault \in SchedFaults : RescheduleAllJobs(order, fault)
    \/ \E order \in Orderings(NotifyRows(DB)) : Main(order, "none")

SpecSched == Init /\ [][NextSched]_vars

(***************************************************************************)
(* SpecFire: one user answers questions on two days, sets a reminder, and  *)
(* the reminder's jobs run on either day, before and after the day's count *)
(* reaches DAILY_CAP.                                                      *)
(***************************************************************************)
FireKey == <<1, 21>>

FireDays == {Calendar[1], Calendar[2]}

FireArgs ==
    { << <<"0", "7", ":", "3", "0">> >>,
      << <<"0", "7", ":", "3", "0">>, "Mars/Phobos" >> }

NextFire ==
    \/ \E args \in FireArgs : Notify(FireKey, "Ada", args, "none")
    \/ \E j \in BagToSet(jobs), today \in FireDays, fault \in {"none", "stmt1"} : Fire(j, today, fault)
    \/ \E day \in FireDays : IncDailyCountBelow(FireKey, day, "none", MaxAnswered)

SpecFire == Init /\ [][NextFire]_vars

(***************************************************************************)
(* init_db, one os or sqlite3 call per step, and what happens around it:   *)
(* another process opens and closes the files or deletes the database      *)
(* file, the bot's process ends, the file is damaged while it is down.     *)
(***************************************************************************)
\* the tables become those of db
SetTables(db) ==
    /\ results' = db.results
    /\ daily_progress' = db.daily_progress
    /\ streaks' = db.streaks
    /\ user_prefs' = db.user_prefs
    /\ user_names' = db.user_names

\* "if os.path.exists(DB_PATH) and not _integrity_ok()"
InitDbProbe(busy) ==
    /\ boot.pc = "down"
    /\ boot' = [NoBoot EXCEPT
                  !.pc = IF disk.db # "absent" /\ ~_integrity_ok(disk.db, busy) THEN "rotate" ELSE "connect",
                  !.found = [db |-> disk.db, sibling |-> disk.sibling, schema |-> disk.schema,
                             ok |-> _integrity_ok(disk.db, busy)],
                  !.again = boot.again]
    /\ UNCHANGED <<tables, sched, conc, disk, call, marked, past, mcq>>

\* what a failed try leaves of boot: the next try, the next loop, or the end
Failed_Try(b, tries, event, next) ==
    [b EXCEPT !.pc = IF LastTry(b.i, tries) THEN next ELSE b.pc,
              !.i = IF LastTry(b.i, tries) THEN 0 ELSE b.i + 1,
              !.met = b.met \cup {event},
              !.locked_all = b.locked_all /\ "db" \in disk.locked]

Rotated_Dropped(d) == [d EXCEPT !.db = "absent", !.schema = NoSchema]

\* os.replace(DB_PATH, corrupt_path): the file is now the sibling
Rotated(d) == [d EXCEPT !.sibling = d.db, !.db = "absent", !.schema = NoSchema]

\* one pass of the first loop of _try_rotate_or_remove: remove the old sibling, then
\* os.replace(DB_PATH, corrupt_path); oserr: the rename raises another OSError
RotateAttempt(oserr) ==
    LET b == [boot EXCEPT !.renames = boot.renames + 1]
        no_sibling == [disk EXCEPT !.sibling = "absent"]
    IN
    /\ boot.pc = "rotate"
    /\ IF disk.sibling # "absent" /\ "sibling" \in disk.locked
       THEN /\ boot' = Failed_Try(b, RotateTries, "sibling_locked", "delete")
            /\ UNCHANGED <<disk, tables>>
       ELSE IF disk.db = "absent"
       THEN /\ boot' = [b EXCEPT !.pc = AfterRecovery(TRUE), !.met = b.met \cup {"gone"},
                                 !.locked_all = FALSE]
            /\ disk' = no_sibling
            /\ UNCHANGED tables
       ELSE IF "db" \in disk.locked
       THEN /\ boot' = Failed_Try(b, RotateTries, "db_locked", "delete")
            /\ disk' = no_sibling
            /\ UNCHANGED tables
       ELSE IF oserr
       THEN /\ boot' = Failed_Try(b, RotateTries, "oserror", "delete")
            /\ disk' = no_sibling
            /\ UNCHANGED tables
       ELSE /\ boot' = [b EXCEPT !.pc = AfterRecovery(TRUE), !.locked_all = FALSE]
            /\ disk' = Rotated(disk)
            /\ SetTables(EmptyDB)
    /\ UNCHANGED <<sched, conc, call, marked, past, mcq>>

\* one pass of the second loop: "if os.path.exists(DB_PATH): os.remove(DB_PATH)"
RemoveAttempt(oserr) ==
    LET b == [boot EXCEPT !.deletes = boot.deletes + 1] IN
    /\ boot.pc = "delete"
    /\ IF disk.db = "absent"
       THEN /\ boot' = [boot EXCEPT !.pc = AfterRecovery(TRUE), !.met = boot.met \cup {"gone"},
                                    !.locked_all = FALSE]
            /\ UNCHANGED <<disk, tables>>
       ELSE IF "db" \in disk.locked
       THEN /\ boot' = Failed_Try(b, RemoveTries, "db_locked", AfterRecovery(FALSE))
            /\ UNCHANGED <<disk, tables>>
       ELSE IF oserr
       THEN /\ boot' = Failed_Try(b, RemoveTries, "oserror", AfterRecovery(FALSE))
            /\ UNCHANGED <<disk, tables>>
       ELSE /\ boot' = [b EXCEPT !.pc = AfterRecovery(TRUE), !.locked_all = FALSE]
            /\ disk' = [disk EXCEPT !.db = "absent", !.schema = NoSchema]
            /\ SetTables(EmptyDB)
    /\ UNCHANGED <<sched, conc, call, marked, past, mcq>>

\* conn = _connect(); _create_or_migrate_schema(conn); conn.commit(); conn.close().
\* sqlite3 creates a missing file; on a file that is no database the first
\* statement raises sqlite3.DatabaseError
InitDbConnect ==
    LET st == _create_or_migrate_schema([schema |-> disk.schema, db |-> DB], 1) IN
    /\ boot.pc = "connect"
    /\ IF disk.db = "garbage"
       THEN /\ boot' = [boot EXCEPT !.pc = "failed", !.opened = TRUE]
            /\ UNCHANGED <<disk, tables>>
       ELSE /\ boot' = [boot EXCEPT !.pc = "up", !.opened = TRUE]
            /\ disk' = [disk EXCEPT !.db = "sqlite", !.schema = st.schema]
            /\ SetTables(st.db)
    /\ UNCHANGED <<sched, conc, call, marked, past, mcq>>

\* another process opens or closes the database file or its sibling
OtherProcess(L) ==
    /\ boot.pc \in {"down", "rotate", "delete"}
    /\ L # disk.locked
    /\ disk' = [disk EXCEPT !.locked = L]
    /\ UNCHANGED <<tables, sched, conc, boot, call, marked, past, mcq>>

\* another process deletes the database file while init_db is at its recovery
Vanish ==
    /\ boot.pc \in {"rotate", "delete"}
    /\ disk.db # "absent" /\ "db" \notin disk.locked
    /\ disk' = [disk EXCEPT !.db = "absent", !.schema = NoSchema]
    /\ SetTables(EmptyDB)
    /\ UNCHANGED <<sched, conc, boot, call, marked, past, mcq>>

\* the bot's process ends, after init_db returned or raised
Stop ==
    /\ boot.pc \in {"up", "failed"}
    /\ boot' = [NoBoot EXCEPT !.again = (boot.pc = "up")]
    /\ UNCHANGED <<tables, sched, conc, disk, call, marked, past, mcq>>

\* the database file is damaged while the bot is down
Damage ==
    /\ boot.pc = "down"
    /\ disk.db = "sqlite"
    /\ disk' = [disk EXCEPT !.db = "garbage"]
    /\ UNCHANGED <<tables, sched, conc, boot, call, marked, past, mcq>>

(***************************************************************************)
(* SpecBoot: init_db on the files an earlier run or an earlier version of  *)
(* the bot left.                                                           *)
(***************************************************************************)
\* the schema of an earlier version: streaks without last_day, no user_names, and a
\* column more in results
OldSchema ==
    [t \in {"results", "daily_progress", "streaks", "user_prefs"} |->
        IF t = "streaks" THEN RequiredCols(t) \ {"last_day"}
        ELSE IF t = "results" THEN RequiredCols(t) \cup {"note"}
        ELSE RequiredCols(t)]

\* a complete schema with a column more in results
WideSchema == [FullSchema EXCEPT !["results"] = @ \cup {"note"}]

SchemaSamples == {FullSchema, OldSchema, WideSchema}

\* rows of a database in use
SampleDB ==
    [results |-> <<[chat_id |-> 1, user_id |-> 21, correct |-> 1]>>,
     daily_progress |-> [k \in {<<1, 21, Calendar[2]>>} |-> 3],
     streaks |-> [k \in {<<1, 21>>} |-> [current_streak |-> 1, best_streak |-> 2, last_day |-> Calendar[2]]],
     user_prefs |-> [k \in {<<1, 21>>} |-> [notify_hour |-> Val(7), notify_minute |-> Val(30),
                                             tz |-> Val("Asia/Kolkata")]],
     user_names |-> [k \in {<<1, 21>>} |-> "Ada"]]

\* the rows of db in the tables schema has
RowsIn(db, schema) == [t \in DOMAIN db |-> IF t \in DOMAIN schema THEN db[t] ELSE NoRows(t)]

InitBoot ==
    /\ \E content \in {"absent", "sqlite", "garbage"}, sibling \in {"absent", "stale"},
          schema \in SchemaSamples, db \in {EmptyDB, SampleDB} :
          /\ disk = [db |-> content, sibling |-> sibling, locked |-> {},
                     schema |-> IF content = "absent" THEN NoSchema ELSE schema]
          /\ LET r == IF content = "absent" THEN EmptyDB ELSE RowsIn(db, schema) IN
                 /\ results = r.results
                 /\ daily_progress = r.daily_progress
                 /\ streaks = r.streaks
                 /\ user_prefs = r.user_prefs
                 /\ user_names = r.user_names
    /\ boot = NoBoot
    /\ jobs = EmptyBag
    /\ disabled = {}
    /\ user_data = {}
    /\ mcq = NoMcq
    /\ conns = << >>
    /\ writer = 0
    /\ call = NoCall
    /\ marked = NoMarks
    /\ past = NoPast

NextBoot ==
    \/ \E busy \in BOOLEAN : InitDbProbe(busy)
    \/ \E oserr \in BOOLEAN : RotateAttempt(oserr)
    \/ \E oserr \in BOOLEAN : RemoveAttempt(oserr)
    \/ InitDbConnect
    \/ \E L \in SUBSET {"db", "sibling"} : OtherProcess(L)
    \/ Vanish
    \/ Stop
    \/ Damage

SpecBoot == InitBoot /\ [][NextBoot]_vars

\* the passes of _try_rotate_or_remove are statements of one thread with finite sleeps
\* between them: a pass that can run does run
SpecBootFair ==
    /\ SpecBoot
    /\ WF_vars(\E oserr \in BOOLEAN : RotateAttempt(oserr))
    /\ WF_vars(\E oserr \in BOOLEAN : RemoveAttempt(oserr))

(***************************************************************************)
(* SpecPrefs: two users set and read their reminders, with hours and       *)
(* minutes at the ends of their ranges, and commits that fail.             *)
(***************************************************************************)
PrefHours == {0, 7, 23}

PrefMinutes == {0, 30, 59}

NextPrefs ==
    \/ \E k \in Keys, h \in PrefHours, m \in PrefMinutes, tz \in TzNames, fault \in {"none", "commit"} :
           SetNotifyTime(k, h, m, tz, fault)
    \/ \E k \in Keys : GetNotifyTime(k, "none")

SpecPrefs == Init /\ [][NextPrefs]_vars

(***************************************************************************)
(* SpecStreak: mark_day_complete of one key with calendar days in any      *)
(* order, among them 2024-01-01, 2024-01-02 and 2024-01-04.                *)
(***************************************************************************)
StreakDays == CalendarDays \cup {Calendar[5]}

NextStreak ==
    \/ \E day \in StreakDays : MarkDayComplete(StreakKey, day, "none")
    \/ GetStreak(StreakKey, "none")

SpecStreak == Init /\ [][NextStreak]_vars

(***************************************************************************)
(* SpecBoard: get_top_streaks on the streaks and names of three users of   *)
(* one chat and one user of another chat, with ties in current_streak and  *)
(* in best_streak, users without a stored name, and limits from 0 up.      *)
(***************************************************************************)
BoardChat == 1

OtherChat == 12

BoardUsers == {21, 22, 23}

\* the streaks a user may have: (current, best)
BoardStreaks == {<<1, 1>>, <<1, 2>>, <<2, 2>>}

BoardLimits == {0, 1, 2, 10}

\* a streaks table: one row for each user of who, and maybe one in the other chat
StreakTable(who, streak, other) ==
    [k \in {<<BoardChat, u>> : u \in who} \cup (IF other THEN {<<OtherChat, 21>>} ELSE {}) |->
        IF k[1] = BoardChat
        THEN [current_streak |-> streak[k[2]][1], best_streak |-> streak[k[2]][2], last_day |-> Calendar[2]]
        ELSE [current_streak |-> 2, best_streak |-> 2, last_day |-> Calendar[2]]]

InitBoard ==
    /\ results = << >>
    /\ daily_progress = EmptyTable
    /\ \E who \in SUBSET BoardUsers, streak \in [BoardUsers -> BoardStreaks], other \in BOOLEAN :
          streaks = StreakTable(who, streak, other)
    /\ user_prefs = EmptyTable
    /\ \E named \in SUBSET {<<BoardChat, 21>>, <<OtherChat, 21>>, <<OtherChat, 22>>} :
          user_names = [k \in named |-> IF k[1] = BoardChat THEN "Ada" ELSE "Eve"]
    /\ jobs = EmptyBag
    /\ disabled = {}
    /\ user_data = {}
    /\ mcq = NoMcq
    /\ conns = << >>
    /\ writer = 0
    /\ disk = Installed
    /\ boot = Booted
    /\ call = NoCall
    /\ marked = NoMarks
    /\ past = NoPast

NextBoard ==
    \/ \E chat_id \in {BoardChat, OtherChat}, limit \in BoardLimits : GetTopStreaks(chat_id, limit, "none")
    \/ SetUserName(<<BoardChat, 22>>, "Bob", "none")

SpecBoard == InitBoard /\ [][NextBoard]_vars

(***************************************************************************)
(* SpecScore: two users record results, right and wrong, with commits that *)
(* fail, and read their scores.                                            *)
(***************************************************************************)
NextScore ==
    \/ \E k \in Keys, c \in BOOLEAN, fault \in {"none", "commit"} : RecordResultBelow(k, c, fault, MaxEvents)
    \/ \E k \in Keys : GetScore(k, "none")

SpecScore == Init /\ [][NextScore]_vars

(***************************************************************************)
(* SpecZone: one user sets reminders only with zone names ZoneInfo() does  *)
(* not find, answers questions on two days, and the reminders' jobs run.   *)
(***************************************************************************)
ZoneArgs ==
    { << <<"0", "7", ":", "3", "0">>, "Mars/Phobos" >>,
      << <<"2", "3", ":", "0", "5">>, "Nowhere" >> }

NextZone ==
    \/ \E args \in ZoneArgs : Notify(FireKey, "Ada", args, "none")
    \/ \E j \in BagToSet(jobs), today \in FireDays, fault \in {"none", "stmt1"} : Fire(j, today, fault)
    \/ \E day \in FireDays : IncDailyCountBelow(FireKey, day, "none", MaxAnswered)

SpecZone == Init /\ [][NextZone]_vars

(***************************************************************************)
(* SpecTimes: two users send /notify with times int() and the assert take  *)
(* and with times they refuse, and /unnotify, while the jobs run.          *)
(***************************************************************************)
TimeArgs ==
    { << <<"0", "7", ":", "3", "0">> >>,
      << <<"2", "3", ":", "0", "5">>, "Europe/Paris" >>,
      << <<"+", "7", ":", "5">> >>,
      << <<"2", "4", ":", "0", "0">> >>,
      << <<"0", "7", ":", "6", "0">>, "Europe/Paris" >>,
      << <<"-", "1", ":", "3", "0">> >>,
      << <<"0", "7", "3", "0">> >>,
      << <<"0", "7", ":", "3", "0", ":", "0", "0">> >>,
      << <<"a", "b", ":", "c", "d">> >>,
      << <<"0", "7", ":">>, "Europe/Paris" >> }

NextTimes ==
    \/ \E k \in Keys, args \in TimeArgs : Notify(k, "Ada", args, "none")
    \/ \E k \in Keys : Unnotify(k, "Ada")
    \/ \E j \in BagToSet(jobs) : Fire(j, Calendar[1], "none")

SpecTimes == Init /\ [][NextTimes]_vars

(***************************************************************************)
(* github_committer.py: the commits the bot makes through the GitHub API   *)
(* when a day's questions are done.  The environment is a function from    *)
(* the names that are set to their values; web[i] is how the i-th PUT of   *)
(* a call ends: a status code, or an exception of the requests library.    *)
(***************************************************************************)
EnvNames == <<"GITHUB_TOKEN", "GITHUB_REPO", "GH_USER_NAME", "GH_USER_EMAIL">>

\* the names of seq, in its order, whose os.environ.get(name) is None or ""
RECURSIVE MissingFrom(_, _, _)
MissingFrom(env, seq, i) ==
    IF i > Len(seq) THEN << >>
    ELSE (IF seq[i] \notin DOMAIN env \/ env[seq[i]] = "" THEN <<seq[i]>> ELSE << >>)
         \o MissingFrom(env, seq, i + 1)

\* GitHubCommitter._put_file: what the i-th PUT raises
_put_file(web, i) ==
    IF web[i] \in {"200", "201"} THEN "none"
    ELSE IF web[i] = "ConnectionError" THEN "ConnectionError"
    ELSE "RuntimeError"

\* GitHubCommitter.commit_n from its i-th file on: the PUTs made and what ended the loop
RECURSIVE commit_n(_, _, _)
commit_n(n, web, i) ==
    IF i > n THEN [raised |-> "none", trace |-> << >>]
    ELSE IF _put_file(web, i) # "none" THEN [raised |-> _put_file(web, i), trace |-> <<"put">>]
    ELSE LET rest == commit_n(n, web, i + 1) IN [rest EXCEPT !.trace = <<"put">> \o @]

\* make_daily_commits_if_configured without its try/except
make_daily_commits_if_configured_NoTry(n, requests, env, web) ==
    LET missing == MissingFrom(env, EnvNames, 1)
        done == commit_n(n, web, 1)
    IN  IF ~requests THEN [ret |-> <<"Dependency missing">>, raised |-> "none", trace |-> << >>]
        ELSE IF missing # << >>
             THEN [ret |-> <<"GitHub committer not configured">> \o missing, raised |-> "none", trace |-> << >>]
        ELSE [ret |-> IF done.raised = "none" THEN <<"Committed", n, env["GITHUB_REPO"]>> ELSE << >>,
              raised |-> done.raised, trace |-> done.trace]

\* make_daily_commits_if_configured(n, tag): the text returned and the PUTs made
make_daily_commits_if_configured(n, requests, env, web) ==
    LET missing == MissingFrom(env, EnvNames, 1)
        done == commit_n(n, web, 1)
    IN  IF ~requests THEN [ret |-> <<"Dependency missing">>, raised |-> "none", trace |-> << >>]
        ELSE IF missing # << >>
             THEN [ret |-> <<"GitHub committer not configured">> \o missing, raised |-> "none", trace |-> << >>]
        ELSE IF done.raised = "none"
             THEN [ret |-> <<"Committed", n, env["GITHUB_REPO"]>>, raised |-> "none", trace |-> done.trace]
        ELSE [ret |-> <<"Commit failed", done.raised>>, raised |-> "none", trace |-> done.trace]

\* a call of make_daily_commits_if_configured, as /forcecommit, the module's self-test
\* and the answer handler make it
MakeDailyCommits(n, requests, env, web) ==
    LET r == make_daily_commits_if_configured(n, requests, env, web) IN
    /\ Called("make_daily_commits_if_configured", <<0, 0>>,
              [n |-> n, requests |-> requests, env |-> env, web |-> web], "none", None,
              [db |-> DB, ret |-> r.ret, raised |-> r.raised, trace |-> r.trace])
    /\ UNCHANGED <<tables, sched, conc, marked, past, host, mcq>>

(***************************************************************************)
(* SpecCommit: calls of make_daily_commits_if_configured for one file (the *)
(* self-test) and for DAILY_CAP files, in every environment.               *)
(***************************************************************************)
EnvSet == {EnvNames[i] : i \in 1..Len(EnvNames)}

\* any of the four variables unset, or one of them set to the empty text
Environments ==
    {[name \in S |-> "set"] : S \in SUBSET EnvSet} \cup
    {[name \in EnvSet |-> IF name = empty THEN "" ELSE "set"] : empty \in EnvSet}

WebOutcomes == {"201", "403", "ConnectionError"}

\* the ways n PUTs can go up to the first that fails: commit_n makes none after it
Webs(n) ==
    {[i \in 1..n |-> "201"]} \cup
    {[i \in 1..n |-> IF i = at THEN how ELSE "201"] : at \in 1..n, how \in WebOutcomes \ {"201"}}

NextCommit ==
    \E n \in {1, DAILY_CAP}, requests \in BOOLEAN, env \in Environments :
        \E web \in Webs(n) : MakeDailyCommits(n, requests, env, web)

SpecCommit == Init /\ [][NextCommit]_vars

(***************************************************************************)
(* The daily quiz of main.py: /daily and the buttons under a question      *)
(* (callback data "cs:..."), on the store, the pending question kept in    *)
(* user_data, and the commits made when a day's questions are done.        *)
(***************************************************************************)
\* _load_cs_question: whether a pending question is found for the user
_load_cs_question_Any(ud, k) == TRUE

_load_cs_question(ud, k) == k[2] \in ud

\* _store_cs_question from a handler of an update, whose context has user_data
_store_cs_question(ud, k) == ud \cup {k[2]}

\* "if count_after >= DAILY_CAP" of cs_cb_handler
DayDone_Always(count_after) == TRUE

DayDone(count_after) == count_after >= DAILY_CAP

\* past, after the handler called make_daily_commits_if_configured for k's day
Pushed(p, k, day) ==
    LET was == IF <<k[1], k[2], day>> \in DOMAIN p.pushed THEN p.pushed[<<k[1], k[2], day>>] ELSE 0 IN
    [p EXCEPT !.pushed = Upsert(@, <<k[1], k[2], day>>, was + 1)]

CsNext == <<"c", "s", ":", "n", "e", "x", "t">>

CsOptPrefix == <<"c", "s", ":", "o", "p", "t", ":">>

\* /daily: today is the date _today_ymd gives for the zone of the user's reminder
Daily(k, display_name, today) ==
    LET r1 == NameSet(k, display_name)
        prefs == get_notify_time_work(r1.db, k, "none")
        answered == CountOf(r1.db, k, today)
    IN
    /\ Persist(r1)
    /\ UNCHANGED mcq
    /\ user_data' = IF prefs.exc # "none" \/ QuotaMet(answered) THEN user_data
                    ELSE _store_cs_question(user_data, k)
    /\ Called("daily", k, today, "none", answered,
              [r1 EXCEPT !.ret = IF prefs.exc # "none" THEN None
                                 ELSE IF QuotaMet(answered) THEN "done" ELSE "ask",
                         !.raised = prefs.exc])
    /\ UNCHANGED <<jobs, disabled, conc, marked, past, host>>

\* what cs_cb_handler does with callback data: which of its returns it takes
CsBranch(ud, db, k, data, today) ==
    IF ~_load_cs_question(ud, k) THEN "expired"
    ELSE IF data = CsNext THEN (IF QuotaMet(CountOf(db, k, today)) THEN "done" ELSE "ask")
    ELSE IF ~startswith(data, CsOptPrefix) THEN "invalid action"
    ELSE IF ~IntOk(SplitOn(data, ":")[3]) THEN "invalid option"
    ELSE "answered"

\* cs_cb_handler for callback data that matches "^cs:", called while the day's count is
\* below bound.  An answer counts, marks the day complete when the count has reached
\* DAILY_CAP, and then calls make_daily_commits_if_configured(n=5, tag).
CsCbHandlerBelow(k, display_name, data, today, bound) ==
    LET r1 == NameSet(k, display_name)
        prefs == get_notify_time_work(r1.db, k, "none")
        branch == CsBranch(user_data, r1.db, k, data, today)
        r2 == _db(r1.db, inc_daily_count_work(r1.db, k, today, "none"), TRUE)
        r3 == _db(r2.db, mark_day_complete_work(r2.db, k, today, "none"), TRUE)
        done == DayDone(r2.ret)
    IN
    /\ CountOf(DB, k, today) < bound
    /\ IF prefs.exc # "none" \/ branch # "answered"
       THEN /\ Persist(r1)
            /\ UNCHANGED mcq
            /\ user_data' = IF prefs.exc = "none" /\ branch = "ask"
                            THEN _store_cs_question(user_data, k) ELSE user_data
            /\ Called("cs_cb_handler", k, [data |-> data, today |-> today], "none", CountOf(DB, k, today),
                      [r1 EXCEPT !.ret = IF prefs.exc # "none" THEN None ELSE branch,
                                 !.raised = prefs.exc])
            /\ UNCHANGED <<marked, past>>
       ELSE /\ Persist(IF done THEN r3 ELSE r2)
            /\ marked' = IF done THEN [marked EXCEPT ![k] = MarkedAfter(marked[k], today)] ELSE marked
            /\ past' = IF done THEN Pushed(past, k, today) ELSE past
            /\ Called("cs_cb_handler", k, [data |-> data, today |-> today], "none", CountOf(DB, k, today),
                      [r2 EXCEPT !.ret = "answered",
                                 !.trace = r1.trace \o r2.trace \o (IF done THEN r3.trace ELSE << >>)])
            /\ UNCHANGED <<user_data, mcq>>
    /\ UNCHANGED <<jobs, disabled, conc, host>>

(***************************************************************************)
(* SpecDaily: one user asks for questions, presses the buttons and sends   *)
(* other callback data on two days, sets a reminder, the reminder's jobs   *)
(* run, and the process starts again.                                      *)
(***************************************************************************)
CsData ==
    { <<"c", "s", ":", "n", "e", "x", "t">>,
      <<"c", "s", ":", "o", "p", "t", ":", "0">>,
      <<"c", "s", ":", "o", "p", "t", ":", "3">>,
      <<"c", "s", ":", "o", "p", "t", ":", "x">>,
      <<"c", "s", ":", "o", "p", "t", ":">>,
      <<"c", "s", ":", "s", "k", "i", "p">>,
      <<"c", "s", ":", "o", "p", "t", ":", "1", ":", "2">> }

NextDaily ==
    \/ \E today \in FireDays : Daily(FireKey, "Ada", today)
    \/ \E data \in CsData, today \in FireDays : CsCbHandlerBelow(FireKey, "Ada", data, today, MaxAnswered)
    \/ Notify(FireKey, "Ada", << <<"0", "7", ":", "3", "0">> >>, "none")
    \/ \E j \in BagToSet(jobs), today \in FireDays : Fire(j, today, "none")
    \/ \E order \in Orderings(NotifyRows(DB)) : Main(order, "none")

SpecDaily == Init /\ [][NextDaily]_vars

(***************************************************************************)
(* SpecRows: set_notify_time of three keys and iter_all_notify_prefs, on a *)
(* user_prefs table that starts empty or with a row some of whose columns  *)
(* are NULL (the columns are nullable; set_notify_time never writes NULL). *)
(***************************************************************************)
LegacyKey == <<7, 7>>

LegacyRows ==
    { [notify_hour |-> Null, notify_minute |-> Null, tz |-> Null],
      [notify_hour |-> Null, notify_minute |-> Val(30), tz |-> Val("Asia/Kolkata")],
      [notify_hour |-> Val(7), notify_minute |-> Null, tz |-> Val("Asia/Kolkata")],
      [notify_hour |-> Val(7), notify_minute |-> Val(30), tz |-> Null] }

InitRows ==
    /\ results = << >>
    /\ daily_progress = EmptyTable
    /\ streaks = EmptyTable
    /\ \E rows \in {EmptyTable} \cup {[k \in {LegacyKey} |-> row] : row \in LegacyRows} : user_prefs = rows
    /\ user_names = EmptyTable
    /\ jobs = EmptyBag
    /\ disabled = {}
    /\ user_data = {}
    /\ mcq = NoMcq
    /\ conns = << >>
    /\ writer = 0
    /\ disk = Installed
    /\ boot = Booted
    /\ call = NoCall
    /\ marked = NoMarks
    /\ past = NoPast

NextRows ==
    \/ \E k \in Keys \cup {LegacyKey}, h \in {7, 23}, fault \in {"none", "commit"} :
          SetNotifyTime(k, h, 30, "Asia/Kolkata", fault)
    \/ \E order \in Orderings(NotifyRows(DB)), pulls \in 0..(Cardinality(DOMAIN user_prefs) + 1),
          fault \in {"none", "stmt1"} : IterAllNotifyPrefs(order, pulls, fault)

SpecRows == InitRows /\ [][NextRows]_vars

(***************************************************************************)
(* SpecMcq: generate_mcq_for_date (contributions.py), one step per pass of *)
(* its loop.  The draws of random.Random(pick_date.toordinal()) are inputs *)
(* of the steps.                                                           *)
(***************************************************************************)
DayContribution(date, count) == [date |-> date, count |-> count]

\* {d.date: d.count for d in contribs}.get(pick_date, default): the last entry of a date wins
RECURSIVE day_map_get(_, _, _)
day_map_get(contribs, pick_date, default) ==
    IF contribs = << >> THEN default
    ELSE IF contribs[Len(contribs)].date = pick_date THEN contribs[Len(contribs)].count
    ELSE day_map_get(SubSeq(contribs, 1, Len(contribs) - 1), pick_date, default)

\* rnd.choice([1, 2, 3, 4, 5, 7, 10, 12, 15, 20]) draws from these
Deltas == {1, 2, 3, 4, 5, 7, 10, 12, 15, 20}

\* rnd.choice([-1, 1]) draws from these
Signs == {-1, 1}

\* val = max(0, correct + sign * delta)
Distractor(correct, sign, delta) ==
    IF correct + sign * delta > 0 THEN correct + sign * delta ELSE 0

\* a loop that adds every val
AddOffset_Any(offsets, val, correct) == offsets \cup {val}

\* if val != correct: offsets.add(val)
AddOffset(offsets, val, correct) == IF val # correct THEN offsets \cup {val} ELSE offsets

\* the orders rnd.shuffle can leave a list of n elements in
Shuffles(n) == {p \in [1..n -> 1..n] : \A i, j \in 1..n : p[i] = p[j] => i = j}

\* options.index(x), counted from 0
index(options, x) ==
    (CHOOSE i \in 1..Len(options) : options[i] = x /\ \A j \in 1..(i - 1) : options[j] # x) - 1

\* f"How many contributions did you make on {pick_date.isoformat()}?"
Question(pick_date) == <<"How many contributions did you make on ", pick_date, "?">>

\* generate_mcq_for_date(contribs, pick_date) up to its loop: correct and the empty offsets;
\* call holds no result while the function runs
GenerateMcqForDate(contribs, pick_date) ==
    /\ mcq.pc = "idle"
    /\ mcq' = [pc |-> "loop", contribs |-> contribs, pick_date |-> pick_date,
               correct |-> day_map_get(contribs, pick_date, 0), offsets |-> {}]
    /\ call' = NoCall
    /\ UNCHANGED <<tables, jobs, disabled, user_data, conc, host, marked, past>>

\* one pass of  while len(offsets) < 3
GenerateMcqLoop(delta, sign) ==
    /\ mcq.pc = "loop"
    /\ Cardinality(mcq.offsets) < 3
    /\ mcq' = [mcq EXCEPT !.offsets = AddOffset(@, Distractor(mcq.correct, sign, delta), mcq.correct)]
    /\ UNCHANGED <<tables, jobs, disabled, user_data, conc, host, call, marked, past>>

\* after the loop: options = list(offsets) + [correct], the shuffle, the index and the return;
\* listed is the order in which list() gives the set, shuffle the order rnd.shuffle leaves
GenerateMcqReturn(listed, shuffle) ==
    /\ mcq.pc = "loop"
    /\ ~(Cardinality(mcq.offsets) < 3)
    /\ LET options == listed \o <<mcq.correct>>
           shuffled == [i \in 1..Len(options) |-> options[shuffle[i]]]
       IN  Called("generate_mcq_for_date", <<0, 0>>,
                  [contribs |-> mcq.contribs, pick_date |-> mcq.pick_date], "none", None,
                  [ret |-> [q |-> Question(mcq.pick_date), options |-> shuffled,
                            correct_index |-> index(shuffled, mcq.correct)],
                   raised |-> "none", trace |-> << >>])
    /\ mcq' = NoMcq
    /\ UNCHANGED <<tables, jobs, disabled, user_data, conc, host, marked, past>>

\* the lists of contributions of the calls: none, a day with no contributions, two days,
\* and a day listed twice
McqContribs ==
    { << >>,
      <<DayContribution(1, 0)>>,
      <<DayContribution(1, 2), DayContribution(2, 25)>>,
      <<DayContribution(1, 25), DayContribution(1, 2)>> }

McqDates == {1, 2}

NextMcq ==
    \/ \E contribs \in McqContribs, pick_date \in McqDates : GenerateMcqForDate(contribs, pick_date)
    \/ \E delta \in Deltas, sign \in Signs : GenerateMcqLoop(delta, sign)
    \/ \E listed \in Orderings(mcq.offsets) :
          \E shuffle \in Shuffles(Len(listed) + 1) : GenerateMcqReturn(listed, shuffle)

SpecMcq == Init /\ [][NextMcq]_vars

\* every value of the two draws comes again while the loop runs, and the function goes on
SpecMcqFair ==
    /\ SpecMcq
    /\ \A delta \in Deltas, sign \in Signs : WF_vars(GenerateMcqLoop(delta, sign))
    /\ WF_vars(\E listed \in Orderings(mcq.offsets) :
                  \E shuffle \in Shuffles(Len(listed) + 1) : GenerateMcqReturn(listed, shuffle))

(***************************************************************************)
(* SpecConc: n callers run inc_daily_count for the same (chat, user, day)  *)
(* at once, each on a connection of its own, one sqlite3 call per step.    *)
(* A connection that writes takes the database's write lock at its first   *)
(* write and holds it until it commits; a write that finds the lock taken  *)
(* waits (sqlite3's busy timeout, 5 s by default, is taken not to expire). *)
(* A connection reads the committed tables as of the start of its          *)
(* transaction, and its own writes.                                        *)
(***************************************************************************)
ConcKey == <<1, 21>>

ConcDay == Calendar[2]

\* the write lock is free, or the caller's own
CanWrite(p) == writer \in {0, p}

\* _connect()
ConcConnect(p) ==
    /\ conns[p].pc = "idle"
    /\ conns' = [conns EXCEPT ![p].pc = "upsert"]
    /\ UNCHANGED <<tables, writer, sched, call, marked, past, host, mcq>>

\* conn.execute(INSERT ... ON CONFLICT DO UPDATE): begins the transaction
ConcUpsert(p) ==
    /\ conns[p].pc = "upsert"
    /\ CanWrite(p)
    /\ writer' = p
    /\ conns' = [conns EXCEPT ![p].pc = "select",
                              ![p].db = inc_daily_count_upsert(DB, ConcKey, ConcDay)]
    /\ UNCHANGED <<tables, sched, call, marked, past, host, mcq>>

\* conn.execute(SELECT count ...).fetchone(), and the return value
ConcSelect(p) ==
    /\ conns[p].pc = "select"
    /\ conns' = [conns EXCEPT ![p].pc = "commit",
                              ![p].ret = CountOf(conns[p].db, ConcKey, ConcDay)]
    /\ UNCHANGED <<tables, writer, sched, call, marked, past, host, mcq>>

\* conn.commit()
ConcCommit(p) ==
    /\ conns[p].pc = "commit"
    /\ Persist(conns[p])
    /\ writer' = IF writer = p THEN 0 ELSE writer
    /\ conns' = [conns EXCEPT ![p].pc = "close"]
    /\ UNCHANGED <<sched, call, marked, past, host, mcq>>

\* conn.close(); the caller has its value
ConcClose(p) ==
    /\ conns[p].pc = "close"
    /\ conns' = [conns EXCEPT ![p].pc = "done"]
    /\ UNCHANGED <<tables, writer, sched, call, marked, past, host, mcq>>

InitConc ==
    /\ results = << >>
    /\ daily_progress = EmptyTable
    /\ streaks = EmptyTable
    /\ user_prefs = EmptyTable
    /\ user_names = EmptyTable
    /\ jobs = EmptyBag
    /\ disabled = {}
    /\ user_data = {}
    /\ mcq = NoMcq
    /\ \E n \in 1..NumCallers : conns = [p \in 1..n |-> [pc |-> "idle", db |-> EmptyDB, ret |-> 0]]
    /\ writer = 0
    /\ disk = Installed
    /\ boot = Booted
    /\ call = NoCall
    /\ marked = NoMarks
    /\ past = NoPast

NextConc ==
    \E p \in DOMAIN conns :
        \/ ConcConnect(p)
        \/ ConcUpsert(p)
        \/ ConcSelect(p)
        \/ ConcCommit(p)
        \/ ConcClose(p)

SpecConc == InitConc /\ [][NextConc]_vars

(***************************************************************************)
(* SpecReaders: callers of inc_daily_count and callers of get_daily_count  *)
(* for the same (chat, user, day) at once, each on a connection of its     *)
(* own, one sqlite3 call per step.  A caller's floor is the greatest value *)
(* an inc_daily_count had returned when the caller started.                *)
(***************************************************************************)
Snapshot_Stale(p) == conns[p].db

\* a read that sees what the holder of the write lock has not committed yet
Snapshot_Dirty(p) == IF writer \in DOMAIN conns THEN conns[writer].db ELSE DB

\* what a SELECT outside a write transaction reads: the committed tables
Snapshot(p) == DB

\* the greatest value returned so far by an inc_daily_count
RECURSIVE ReturnedSoFar(_)
ReturnedSoFar(n) ==
    IF n = 0 THEN 0
    ELSE LET rest == ReturnedSoFar(n - 1) IN
         IF conns[n].op = "inc_daily_count" /\ conns[n].pc = "done" /\ conns[n].ret > rest
         THEN conns[n].ret ELSE rest

\* inc_daily_count is called: _connect()
IncConnect(p) ==
    /\ conns[p].op = "inc_daily_count"
    /\ ConcConnect(p)

\* get_daily_count is called: _connect()
ReadConnect(p) ==
    /\ conns[p].op = "get_daily_count"
    /\ conns[p].pc = "idle"
    /\ conns' = [conns EXCEPT ![p].pc = "read", ![p].floor = ReturnedSoFar(Len(conns))]
    /\ UNCHANGED <<tables, writer, sched, call, marked, past, host, mcq>>

\* conn.execute(SELECT count ...).fetchone(), and the return value
ReadSelect(p) ==
    /\ conns[p].pc = "read"
    /\ conns' = [conns EXCEPT ![p].pc = "end", ![p].ret = CountOf(Snapshot(p), ConcKey, ConcDay)]
    /\ UNCHANGED <<tables, writer, sched, call, marked, past, host, mcq>>

\* conn.commit() with nothing written, conn.close(); the caller has its value
ReadClose(p) ==
    /\ conns[p].pc = "end"
    /\ conns' = [conns EXCEPT ![p].pc = "done"]
    /\ UNCHANGED <<tables, writer, sched, call, marked, past, host, mcq>>

ReaderOps == {"inc_daily_count", "get_daily_count"}

InitReaders ==
    /\ results = << >>
    /\ daily_progress = EmptyTable
    /\ streaks = EmptyTable
    /\ user_prefs = EmptyTable
    /\ user_names = EmptyTable
    /\ jobs = EmptyBag
    /\ disabled = {}
    /\ user_data = {}
    /\ mcq = NoMcq
    /\ \E n \in 1..NumCallers : \E ops \in [1..n -> ReaderOps] :
          conns = [p \in 1..n |-> [pc |-> "idle", db |-> EmptyDB, ret |-> 0, op |-> ops[p], floor |-> 0]]
    /\ writer = 0
    /\ disk = Installed
    /\ boot = Booted
    /\ call = NoCall
    /\ marked = NoMarks
    /\ past = NoPast

NextReaders ==
    \E p \in DOMAIN conns :
        \/ IncConnect(p)
        \/ ConcUpsert(p)
        \/ ConcSelect(p)
        \/ ConcCommit(p)
        \/ ConcClose(p)
        \/ ReadConnect(p)
        \/ ReadSelect(p)
        \/ ReadClose(p)

SpecReaders == InitReaders /\ [][NextReaders]_vars

(***************************************************************************)
(* SpecMarkers: callers of mark_day_complete, for one of two days, and     *)
(* callers of get_streak, all for the same (chat, user) at once, each on a *)
(* connection of its own, one sqlite3 call per step.  The sqlite3 module   *)
(* begins a transaction at the first INSERT, not at a SELECT: the SELECT   *)
(* of mark_day_complete reads the committed tables and takes no lock.      *)
(***************************************************************************)
\* mark_day_complete or get_streak is called: _connect()
MarkConnect(p) ==
    /\ conns[p].pc = "idle"
    /\ conns' = [conns EXCEPT ![p].pc = "select"]
    /\ UNCHANGED <<tables, writer, sched, call, marked, past, host, mcq>>

\* get_streak: the SELECT and the return value
StreakSelect(p) ==
    /\ conns[p].op = "get_streak"
    /\ conns[p].pc = "select"
    /\ conns' = [conns EXCEPT ![p].pc = "end",
                              ![p].ret = get_streak_work(Snapshot(p), ConcKey, "none").ret]
    /\ UNCHANGED <<tables, writer, sched, call, marked, past, host, mcq>>

\* mark_day_complete: the SELECT; "if last == day: return current, best, last"
MarkSelect(p) ==
    LET row == StreakRow(Snapshot(p), ConcKey) IN
    /\ conns[p].op = "mark_day_complete"
    /\ conns[p].pc = "select"
    /\ conns' = [conns EXCEPT ![p].pc = IF IsRepeat(row.last_day, conns[p].day) THEN "end" ELSE "upsert",
                              ![p].row = row,
                              ![p].ret = IF IsRepeat(row.last_day, conns[p].day) THEN <<row.current_streak, row.best_streak, row.last_day>> ELSE @]
    /\ UNCHANGED <<tables, writer, sched, call, marked, past, host, mcq>>

\* mark_day_complete: the INSERT ... ON CONFLICT DO UPDATE of the triple computed from
\* the row the SELECT returned; it begins the transaction and waits for the write lock
MarkUpsert(p) ==
    LET w == mark_day_complete_work([DB EXCEPT !.streaks = Upsert(@, ConcKey, conns[p].row)],
                                    ConcKey, conns[p].day, "none")
    IN
    /\ conns[p].pc = "upsert"
    /\ CanWrite(p)
    /\ writer' = p
    /\ conns' = [conns EXCEPT ![p].pc = "commit", ![p].db = w.db, ![p].ret = w.ret, ![p].wrote = TRUE]
    /\ UNCHANGED <<tables, sched, call, marked, past, host, mcq>>

\* conn.commit() with nothing written, conn.close(); the caller has its value
MarkEnd(p) ==
    /\ conns[p].pc = "end"
    /\ conns' = [conns EXCEPT ![p].pc = "done"]
    /\ UNCHANGED <<tables, writer, sched, call, marked, past, host, mcq>>

MarkDays == {Calendar[2], Calendar[3]}

\* what a caller is: get_streak, or mark_day_complete with a day
MarkerRoles == {[op |-> "get_streak", day |-> None]} \cup {[op |-> "mark_day_complete", day |-> d] : d \in MarkDays}

\* the streak rows the callers may find: none, or a streak that ended the day before
StartRows == {EmptyTable, [k \in {ConcKey} |-> [current_streak |-> 1, best_streak |-> 3, last_day |-> Calendar[1]]]}

InitMarkers ==
    /\ results = << >>
    /\ daily_progress = EmptyTable
    /\ streaks \in StartRows
    /\ user_prefs = EmptyTable
    /\ user_names = EmptyTable
    /\ jobs = EmptyBag
    /\ disabled = {}
    /\ user_data = {}
    /\ mcq = NoMcq
    /\ \E n \in 1..NumCallers : \E roles \in [1..n -> MarkerRoles] :
          conns = [p \in 1..n |-> [pc |-> "idle", db |-> EmptyDB, ret |-> None, op |-> roles[p].op,
                                   day |-> roles[p].day, row |-> StreakRow(EmptyDB, ConcKey),
                                   wrote |-> FALSE, start |-> StreakRow(DB, ConcKey)]]
    /\ writer = 0
    /\ disk = Installed
    /\ boot = Booted
    /\ call = NoCall
    /\ marked = NoMarks
    /\ past = NoPast

NextMarkers ==
    \E p \in DOMAIN conns :
        \/ MarkConnect(p)
        \/ StreakSelect(p)
        \/ MarkSelect(p)
        \/ MarkUpsert(p)
        \/ ConcCommit(p)
        \/ ConcClose(p)
        \/ MarkEnd(p)

SpecMarkers == InitMarkers /\ [][NextMarkers]_vars

(***************************************************************************)
(* Claims about the streak operations, checked under Spec.                 *)
(***************************************************************************)
Triple(row) == <<row.current_streak, row.best_streak, row.last_day>>

MarkReturned == call.op = "mark_day_complete" /\ call.raised = "none"

\* C1 (as amended): a mark_day_complete(chat, user, day) made while the stored
\* last_completed_day equals day leaves the stored triple unchanged, and when it
\* returns it returns that triple.
C1_RepeatOfLastDayIsNoOp ==
    (call.op = "mark_day_complete" /\ call.before.row.last_day = call.arg)
        => /\ StreakRow(DB, call.key) = call.before.row
           /\ call.raised = "none" => call.ret = Triple(call.before.row)

\* C1 witness: a repeat call for the stored last day returned, on a streak of 2 or more
C1_Witness ==
    /\ MarkReturned
    /\ call.before.row.last_day = call.arg
    /\ call.before.row.current_streak >= 2
    /\ streaks[call.key].current_streak >= 2

\* C1 (as claimed): once mark_day_complete was called with a day, any further call
\* with that day leaves the stored triple unchanged and returns it (stated for days
\* given in ISO text).
C1_AnyFurtherCallIsNoOp ==
    (MarkReturned /\ call.arg \in call.before.days
                  /\ \A d \in call.before.days : IsCalendarDay(d))
        => /\ StreakRow(DB, call.key) = call.before.row
           /\ call.ret = Triple(call.before.row)

\* C2: for a key with no prior history, after mark_day_complete has completed once
\* for each of k+1 consecutive calendar days in order (given in ISO text),
\* current_streak = k+1 and best_streak >= k+1.
C2_ConsecutiveDaysCount ==
    \A k \in Keys :
        marked[k].run >= 1 =>
            /\ StreakRow(DB, k).current_streak = marked[k].run
            /\ StreakRow(DB, k).best_streak >= marked[k].run

\* C2 witness: every calendar day the callers pass was marked, in order
C2_Witness ==
    /\ MarkReturned
    /\ marked[call.key].run = NumDays
    /\ streaks[call.key].current_streak = NumDays

\* C3: marking a day later than last_completed_day + 1 sets current_streak to 1; in
\* particular marking d + 2 after d was marked and d + 1 never was.
C3_GapResets ==
    (MarkReturned /\ IsCalendarDay(call.arg)) =>
        LET j == CalendarIndex(call.arg)
            last == call.before.row.last_day
        IN  /\ (IsCalendarDay(last) /\ j > CalendarIndex(last) + 1)
                => (call.ret[1] = 1 /\ streaks[call.key].current_streak = 1)
            /\ (j > 2 /\ Calendar[j - 2] \in call.before.days
                      /\ Calendar[j - 1] \notin call.before.days)
                => streaks[call.key].current_streak = 1

\* C3 witness: d + 2 was marked on a streak of 2 ending at d, d + 1 never marked
C3_Witness ==
    /\ MarkReturned
    /\ IsCalendarDay(call.arg)
    /\ CalendarIndex(call.arg) > 2
    /\ call.before.row.last_day = Calendar[CalendarIndex(call.arg) - 2]
    /\ call.before.row.current_streak = 2
    /\ Calendar[CalendarIndex(call.arg) - 1] \notin marked[call.key].days
    /\ call.ret = <<1, 2, call.arg>>

(***************************************************************************)
(* Claims about the Engagement Tracker's calls, checked under SpecTracker. *)
(***************************************************************************)
BestOf(k) == StreakRow(DB, k).best_streak

\* C4: for a fixed (chat, user), best_streak never decreases over any sequence of
\* Engagement Tracker calls (mark_day_complete with any days in any order,
\* increments, reads).
C4_BestNeverDecreases == [][\A k \in Keys : BestOf(k)' >= BestOf(k)]_vars

\* C4 witness: a mark_day_complete reset a streak of 2 to 1 and best_streak stayed 2,
\* and the other key has a streak of its own
C4_Witness ==
    /\ MarkReturned
    /\ call.before.row.current_streak = 2
    /\ call.ret[1] = 1
    /\ streaks[call.key].best_streak = 2
    /\ \E k \in DOMAIN streaks : k # call.key
    /\ \E x \in DOMAIN daily_progress : daily_progress[x] = MaxCount

\* C5: in every reachable state every StreakState row has best_streak >=
\* current_streak, and current_streak > 0 implies last_completed_day is set.
C5_RowInvariant ==
    \A k \in DOMAIN streaks :
        /\ streaks[k].best_streak >= streaks[k].current_streak
        /\ streaks[k].current_streak > 0 => streaks[k].last_day # None

\* C5 witness: both keys have a row, one on a streak of 2, one reset below its best
C5_Witness ==
    \E k1, k2 \in DOMAIN streaks :
        /\ streaks[k1].current_streak = 2
        /\ streaks[k2].current_streak = 1
        /\ streaks[k2].best_streak = 2

(***************************************************************************)
(* Claims about the Store's transactions, checked under SpecStore.         *)
(***************************************************************************)
Occurs(e, t) == Cardinality({i \in 1..Len(t) : t[i] = e})

\* C7: every exit path of a Store transaction performs exactly one of commit and
\* rollback, never both and never neither, before the connection is closed.
C7_ExactlyOneOfCommitRollback ==
    call.trace # << >> =>
        /\ Occurs("commit", call.trace) + Occurs("rollback", call.trace) = 1
        /\ call.trace[Len(call.trace)] = "close"

\* C8: when an operation fails inside its transaction, the failure reaches the
\* caller and the persisted tables are exactly as before the call; so for
\* mark_day_complete given malformed date text.
C8_FailureLeavesDataUnchanged ==
    [][ /\ (call'.raised # "none" \/ Occurs("rollback", call'.trace) > 0)
            => (call'.raised # "none" /\ tables' = tables)
        /\ (call'.op = "mark_day_complete" /\ call'.arg \in BadDays /\ call'.fault = "none")
            => (call'.raised = "ValueError" /\ tables' = tables)
      ]_vars

\* C8 witness: mark_day_complete was given malformed date text, with rows in every
\* table
C8_Witness ==
    /\ call.op = "mark_day_complete"
    /\ call.arg \in BadDays
    /\ call.raised = "ValueError"
    /\ call.trace = <<"connect", "rollback", "close">>
    /\ Len(results) > 0
    /\ DOMAIN daily_progress # {}
    /\ DOMAIN streaks # {}
    /\ DOMAIN user_prefs # {}

(***************************************************************************)
(* Claims about concurrent callers, checked under SpecConc.                *)
(***************************************************************************)
Returned == {p \in DOMAIN conns : conns[p].pc \in {"commit", "close", "done"}}

AllDone == \A p \in DOMAIN conns : conns[p].pc = "done"

\* C6: n concurrent inc_daily_count calls for the same (chat, user, day), starting
\* from no row, return exactly the values 1..n (no duplicate, no gap) and leave the
\* stored count at n, under every interleaving.
C6_NoLostUpdate ==
    /\ \A p, q \in Returned : conns[p].ret = conns[q].ret => p = q
    /\ \A p \in Returned : conns[p].ret \in 1..Cardinality(DOMAIN conns)
    /\ AllDone =>
          /\ {conns[p].ret : p \in DOMAIN conns} = 1..Cardinality(DOMAIN conns)
          /\ CountOf(DB, ConcKey, ConcDay) = Cardinality(DOMAIN conns)

\* C6 witness: all of NumCallers callers are done, the last to connect returned 1
C6_Witness ==
    /\ AllDone
    /\ Cardinality(DOMAIN conns) = NumCallers
    /\ conns[NumCallers].ret = 1
    /\ CountOf(DB, ConcKey, ConcDay) = NumCallers

(***************************************************************************)
(* Claims about the reminder schedule, checked under SpecSched.            *)
(***************************************************************************)
\* the jobs of the queue that run daily
DailyJobs == {j \in BagToSet(jobs) : j.trigger = "daily"}

\* how many jobs of the queue run daily and have this name
DailyNamed(name) ==
    BagCardinality([j \in {x \in DailyJobs : x.name = name} |-> jobs[j]])

\* the timer the claims expect for a row (chat, user, hour, minute, tz) of user_prefs
TimerOf(row) ==
    [name |-> <<"d", "a", "i", "l", "y", "-">> \o Decimal(row[1]) \o <<"-">> \o Decimal(row[2]),
     callback |-> "_daily_job",
     trigger |-> "daily",
     time |-> <<row[3], row[4], IF row[5] \in ZoneNames THEN row[5] ELSE "Asia/Kolkata">>,
     chat_id |-> row[1],
     data |-> [user_id |-> row[2], tz |-> row[5]]]

\* C9: a _reschedule_all_jobs that follows another one at once leaves the queue the
\* first one left, with exactly one daily job for every row of user_prefs and so no
\* duplicate for any (chat, user).
C9_RescheduleTwice ==
    (call.op = "_reschedule_all_jobs" /\ call.raised = "none" /\ call.before.again) =>
        /\ jobs = call.before.jobs
        /\ \A row \in NotifyRows(DB) : DailyNamed(TimerOf(row).name) = 1
        /\ \A j \in DailyJobs : jobs[j] = 1

\* C9 witness: the second of two calls, with a row for each of the two users and a
\* test job in the queue
C9_Witness ==
    /\ call.op = "_reschedule_all_jobs" /\ call.raised = "none" /\ call.before.again
    /\ Cardinality(NotifyRows(DB)) = 2
    /\ Cardinality(DailyJobs) = 2
    /\ \E j \in BagToSet(jobs) : j.trigger = "once"

\* C10: when _reschedule_all_jobs has returned, alone or at a start of the process, the
\* daily jobs are one-to-one with the rows of user_prefs: each row has exactly one job,
\* named daily-<chat>-<user>, at the row's hour and minute in the row's zone (the
\* default zone for a name that is no zone), carrying (chat, user, tz); every daily job
\* is the job of a row.
C10_TimersMatchRows ==
    (call.op \in {"_reschedule_all_jobs", "main"} /\ call.raised = "none") =>
        /\ \A row \in NotifyRows(DB) : CopiesIn(TimerOf(row), jobs) = 1
        /\ \A j \in BagToSet(jobs) :
              (j.trigger = "daily" \/ startswith(j.name, DailyPrefix)) =>
                  \E row \in NotifyRows(DB) : j = TimerOf(row)
        /\ Cardinality(DailyJobs) = Cardinality(NotifyRows(DB))

\* C10 witness: a start of the process found rows for both users, one of them with a
\* zone name that is no zone, and one user without a row has no daily job
C10_Witness ==
    /\ call.op = "main" /\ call.raised = "none"
    /\ Cardinality(NotifyRows(DB)) = 2
    /\ \E row \in NotifyRows(DB) : row[5] = "Mars/Phobos" /\ CopiesIn(TimerOf(row), jobs) = 1
    /\ Cardinality(DailyJobs) = 2

\* the name the claims expect of the daily timer of (chat, user) k
TimerName(k) == <<"d", "a", "i", "l", "y", "-">> \o Decimal(k[1]) \o <<"-">> \o Decimal(k[2])

\* how many jobs of queue q, daily or not, have this name
CountNamed(q, name) == BagCardinality([j \in {x \in BagToSet(q) : x.name = name} |-> q[j]])

\* C11: in every state that _reschedule_all_jobs, /notify and /unnotify calls (and job
\* runs and restarts) reach, each (chat, user) has at most one daily job.
C11_AtMostOneTimerPerKey ==
    /\ \A k \in Keys : DailyNamed(TimerName(k)) <= 1
    /\ \A j \in DailyJobs : \E k \in Keys : j.name = TimerName(k)

\* C11 witness: a /notify that found the user's daily job in the queue has set the
\* reminder, and the user has one daily job
C11_Witness ==
    /\ call.op = "notify" /\ call.ret = "set"
    /\ call.before.daily = 1
    /\ DailyNamed(TimerName(call.key)) = 1

\* C12: a (chat, user) whose last reminder command was /unnotify has no daily job,
\* whatever has happened since: job runs, other users' commands, restarts of the
\* process with their _reschedule_all_jobs.
C12_DisabledStaysOff == \A k \in disabled : DailyNamed(TimerName(k)) = 0

\* the hour and minute an HH:MM text of five characters says
Clock(t) == <<10 * DigitVal(t[1]) + DigitVal(t[2]), 10 * DigitVal(t[4]) + DigitVal(t[5])>>

\* the zone name a /notify with these args asks for
ZoneArg(args) == IF Len(args) > 1 THEN args[2] ELSE "Asia/Kolkata"

\* the row a /notify of (chat, user) k with these args is to persist
RowOf(k, args) == <<k[1], k[2], Clock(args[1])[1], Clock(args[1])[2], ZoneArg(args)>>

\* the test job the claims expect of a /notify for that row
ProbeOf(row) ==
    [name |-> <<"t", "e", "s", "t", "-">> \o TimerOf(row).name,
     callback |-> TimerOf(row).callback,
     trigger |-> "once",
     time |-> <<2>>,
     chat_id |-> row[1],
     data |-> [user_id |-> row[2], tz |-> row[5]]]

\* C13: when /notify has set a reminder, user_prefs holds the row of the request, the
\* only job with the user's daily name is the daily job of that row (any earlier one is
\* gone), and one more test job than before waits: a one-shot job with the fixed delay,
\* the same callback and the same payload.
C13_NotifySetsOneTimer ==
    (call.op = "notify" /\ call.ret = "set") =>
        LET row == RowOf(call.key, call.arg) IN
        /\ row \in NotifyRows(DB)
        /\ CopiesIn(TimerOf(row), jobs) = 1
        /\ CountNamed(jobs, TimerName(call.key)) = 1
        /\ CopiesIn(ProbeOf(row), jobs) >= 1
        /\ CountNamed(jobs, ProbeOf(row).name) = call.before.test + 1

\* C13 witness: a /notify 23:05 Europe/Paris has replaced a daily job the user had
C13_Witness ==
    /\ call.op = "notify" /\ call.ret = "set"
    /\ call.before.daily = 1
    /\ ZoneArg(call.arg) = "Europe/Paris"
    /\ CopiesIn(TimerOf(RowOf(call.key, call.arg)), jobs) = 1

\* C14: /unnotify reports removed exactly when the queue held a job with the user's
\* daily name, and leaves none; every step of it takes exactly those jobs out of the
\* queue, so that the queue is as before when there was none, and leaves the stored
\* reminders, counts, streaks and results as they were.
C14_UnnotifyReportsRemoval ==
    /\ [](call.op = "unnotify" =>
            /\ call.ret = (call.before.daily > 0)
            /\ CountNamed(jobs, TimerName(call.key)) = 0)
    /\ [][call'.op = "unnotify" =>
            LET name == TimerName(call'.key) IN
            /\ jobs' = [j \in {x \in BagToSet(jobs) : x.name # name} |-> jobs[j]]
            /\ CountNamed(jobs, name) = 0 => jobs' = jobs
            /\ UNCHANGED <<user_prefs, daily_progress, streaks, results>>
       ]_<<jobs, user_prefs, daily_progress, streaks, results>>

\* C14 witness: an /unnotify reported removed, the user's daily job is gone and the
\* other user's daily job and a test job are still in the queue
C14_Witness ==
    /\ call.op = "unnotify" /\ call.ret = TRUE /\ call.before.daily = 1
    /\ DailyNamed(TimerName(call.key)) = 0
    /\ \E k \in Keys : k # call.key /\ DailyNamed(TimerName(k)) = 1
    /\ \E j \in BagToSet(jobs) : j.trigger = "once"

(***************************************************************************)
(* Claims about a job's run, checked under SpecFire.                       *)
(***************************************************************************)
\* the count daily_progress holds for (chat, user) k on a day, 0 without a row
Answered(k, day) ==
    IF <<k[1], k[2], day>> \in DOMAIN daily_progress THEN daily_progress[<<k[1], k[2], day>>] ELSE 0

\* C15: a job's run that returns asks a question exactly when the user's count for
\* today was below 5; a run that finds the count at 5 or more asks nothing, and leaves
\* the tables and the daily jobs as they were.
C15_FireAsksBelowQuota ==
    /\ []((call.op = "_daily_job" /\ call.raised = "none") =>
            /\ call.ret \in {"ask", "quota"}
            /\ (call.ret = "ask") <=> (call.before < 5)
            /\ call.before = Answered(call.key, call.arg))
    /\ [][(call'.op = "_daily_job" /\ Answered(call'.key, call'.arg) >= 5) =>
            /\ UNCHANGED tables
            /\ \A j \in BagToSet(jobs) : j.trigger = "daily" => CopiesIn(j, jobs') = CopiesIn(j, jobs)
            /\ \A j \in BagToSet(jobs') : CopiesIn(j, jobs') <= CopiesIn(j, jobs)
       ]_<<tables, jobs>>

\* C15 witness: a job ran when the user's count for the day was exactly 5 and asked
\* nothing, while the count for the other day is below 5
C15_Witness ==
    /\ call.op = "_daily_job" /\ call.ret = "quota"
    /\ call.before = 5
    /\ \E day \in FireDays : Answered(call.key, day) < 5

\* init_db has returned or raised
Over == boot.pc \in {"up", "failed"}

\* init_db went through _try_rotate_or_remove
Recovered == boot.renames > 0

\* the database in use has the five tables, each with its required columns
SchemaComplete ==
    /\ disk.db = "sqlite"
    /\ \A i \in 1..Len(TableNames) :
          /\ TableNames[i] \in DOMAIN disk.schema
          /\ RequiredCols(TableNames[i]) \subseteq disk.schema[TableNames[i]]

C17_StillLockedIsFatal ==
    (boot.renames = RotateTries /\ boot.deletes = RemoveTries /\ boot.locked_all) =>
        /\ boot.pc = "failed"
        /\ ~boot.opened
        /\ disk.db = boot.found.db
        /\ disk.schema = boot.found.schema

\* ten passes on a locked damaged file, and init_db raised
C17_Witness ==
    /\ boot.pc = "failed" /\ boot.locked_all /\ ~boot.opened
    /\ boot.renames = RotateTries /\ boot.deletes = RemoveTries
    /\ boot.met = {"db_locked"} /\ disk.db = "garbage"

\* the recovery is running
Recovering == boot.pc \in {"rotate", "delete"}

\* C18: the recovery makes at most 5 rename passes, then at most 5 delete passes, a
\* delete pass only after 5 rename passes (each of which failed), at most 10 in all;
\* and a recovery that runs comes to its end, handled (init_db connects) or still
\* locked (init_db raises).
C18_RecoveryIsBounded ==
    /\ [](/\ boot.renames <= RotateTries
          /\ boot.deletes <= RemoveTries
          /\ (boot.deletes > 0 \/ boot.pc = "delete" => boot.renames = RotateTries)
          /\ boot.renames + boot.deletes <= 10
          /\ (Recovering => boot.i < RotateTries))
    /\ (Recovering ~> ~Recovering)

\* the tenth pass handled the file: init_db is about to connect
C18_Witness ==
    /\ boot.pc = "connect" /\ boot.renames = 5 /\ boot.deletes = 5 /\ disk.db = "absent"

\* the tables that init_db found without one of their required columns
StaleFound == {t \in DOMAIN boot.found.schema : Stale(boot.found.schema[t], RequiredCols(t))}

\* C19: after init_db ran _create_or_migrate_schema, each of the five tables exists
\* with every required column; a table found without one of its required columns is
\* new (its required columns, nothing else) and empty.
C19_SchemaCompleteAfterMigrate ==
    (boot.pc = "up") =>
        /\ SchemaComplete
        /\ ~Recovered =>
              \A t \in StaleFound : DB[t] = NoRows(t) /\ disk.schema[t] = RequiredCols(t)

\* init_db on a database of the earlier version with rows: streaks was dropped and
\* made anew, user_names was made, results kept its rows and its further column
C19_Witness ==
    /\ boot.pc = "up" /\ ~Recovered
    /\ boot.found.schema = OldSchema /\ boot.found.db = "sqlite"
    /\ "last_day" \in disk.schema["streaks"] /\ streaks = EmptyTable
    /\ "user_names" \in DOMAIN disk.schema
    /\ results # << >> /\ "note" \in disk.schema["results"]

\* results has a row of key k
Answers(k) == \E i \in 1..Len(results) : results[i].chat_id = k[1] /\ results[i].user_id = k[2]

\* the operations of the Store that only read
ReadOps == {"get_daily_count", "get_streak", "get_notify_time", "get_score"}

\* C20: when no sqlite3 call fails and the table has no row of the key, get_daily_count
\* returns 0, get_streak returns (0, 0, None), get_notify_time returns None and
\* get_score returns (0, 0), none of them raises; and none of the four changes a table.
C20_ReadsOfAbsentKeys ==
    /\ [](call.op \in ReadOps /\ call.fault = "none" =>
            /\ (call.op = "get_daily_count" /\ DailyKey(call.key, call.arg) \notin DOMAIN daily_progress
                   => call.raised = "none" /\ call.ret = 0)
            /\ (call.op = "get_streak" /\ call.key \notin DOMAIN streaks
                   => call.raised = "none" /\ call.ret = <<0, 0, None>>)
            /\ (call.op = "get_notify_time" /\ call.key \notin DOMAIN user_prefs
                   => call.raised = "none" /\ call.ret = None)
            /\ (call.op = "get_score" /\ ~Answers(call.key)
                   => call.raised = "none" /\ call.ret = <<0, 0>>))
    /\ [][call'.op \notin ReadOps]_tables

\* get_daily_count on a key of which daily_progress has no row, after the key's
\* reminder was stored
C20_Witness ==
    /\ call.op = "get_daily_count" /\ call.fault = "none"
    /\ daily_progress = EmptyTable /\ call.key \in DOMAIN user_prefs
    /\ call.ret = 0 /\ call.raised = "none"

\* C21: a get_notify_time of a key returns the hour, minute and zone name of the last
\* set_notify_time of that key that returned, whatever was set before and whatever the
\* other key set; and the key's one row holds these three values and nothing of an
\* earlier call.
C21_ReminderRoundTrip ==
    /\ (call.op = "get_notify_time" /\ call.raised = "none" /\ call.key \in DOMAIN past.told
          => call.ret = past.told[call.key])
    /\ \A k \in DOMAIN past.told :
          /\ k \in DOMAIN user_prefs
          /\ user_prefs[k] = [notify_hour |-> Val(past.told[k][1]), notify_minute |-> Val(past.told[k][2]),
                              tz |-> Val(past.told[k][3])]

\* a get_notify_time returned 23:59 with a zone name of no zone, while the other user's
\* reminder is another
C21_Witness ==
    /\ call.op = "get_notify_time" /\ call.key = <<1, 21>>
    /\ call.ret = <<23, 59, "Mars/Phobos">>
    /\ <<12, 1>> \in DOMAIN past.told /\ past.told[<<12, 1>>] = <<0, 0, "Asia/Kolkata">>

\* what mark_day_complete(day) is to return and store on the stored row: the row's
\* triple when day is its last day, one more when its last day is the calendar day
\* before day, a streak of 1 otherwise
Transition(row, day) ==
    LET j == CalendarIndex(day) IN
    IF row.last_day = day THEN Triple(row)
    ELSE IF j > 1 /\ row.last_day = Calendar[j - 1]
    THEN <<row.current_streak + 1, max(row.best_streak, row.current_streak + 1), day>>
    ELSE <<1, max(row.best_streak, 1), day>>

\* C22: a mark_day_complete with a calendar day returns, and leaves stored, the
\* transition of the row it found (no row: (0, 0, None)): unchanged on the row's last
\* day, current + 1 and the greater of best and current + 1 on the day after it,
\* 1 and the greater of best and 1 on any other day.
C22_StreakTransition ==
    (call.op = "mark_day_complete" /\ IsCalendarDay(call.arg)
        /\ (call.before.row.last_day = None \/ IsCalendarDay(call.before.row.last_day))) =>
        /\ call.raised = "none"
        /\ call.ret = Transition(call.before.row, call.arg)
        /\ Triple(StreakRow(DB, call.key)) = Transition(call.before.row, call.arg)

\* a user without history marked 2024-01-01, 2024-01-02 and then 2024-01-04, which
\* returned (1, 2, 2024-01-04) on the row (2, 2, 2024-01-02)
C22_Witness ==
    /\ MarkReturned
    /\ marked[call.key].days = {Calendar[2], Calendar[3], Calendar[5]}
    /\ call.before.row = [current_streak |-> 2, best_streak |-> 2, last_day |-> Calendar[3]]
    /\ call.arg = Calendar[5]
    /\ call.ret = <<1, 2, Calendar[5]>>

\* C23: an inc_daily_count that returns has made the key's count for the day one more
\* than it found (1 when it found no row) and returns that count, also when it found
\* the daily quota of 5 reached or passed.
C23_IncrementHasNoCap ==
    (call.op = "inc_daily_count" /\ call.fault = "none") =>
        /\ call.raised = "none"
        /\ call.ret = call.before + 1
        /\ DailyKey(call.key, call.arg) \in DOMAIN daily_progress
        /\ daily_progress[DailyKey(call.key, call.arg)] = call.before + 1

\* an inc_daily_count on a count of 5 returned 6, after one on no row returned 1 for
\* another day
C23_Witness ==
    /\ call.op = "inc_daily_count" /\ call.before = 5 /\ call.ret = 6
    /\ \E day \in FireDays : day # call.arg /\ CountOf(DB, call.key, day) = 1

(***************************************************************************)
(* Claims about concurrent readers and writers, checked under SpecReaders  *)
(* and SpecMarkers.                                                        *)
(***************************************************************************)
\* the callers of get_daily_count that have their value
HaveRead == {p \in DOMAIN conns : conns[p].op = "get_daily_count" /\ conns[p].pc \in {"end", "done"}}

\* C24: a get_daily_count that started after an inc_daily_count for the same key and
\* day had returned v returns v or more, whatever other callers do meanwhile.
C24_ReadYourWrites == \A p \in HaveRead : conns[p].ret >= conns[p].floor

\* a get_daily_count that started after an inc_daily_count had returned 1 returned 2:
\* another inc_daily_count committed before it read
C24_Witness == \E p \in HaveRead : conns[p].pc = "done" /\ conns[p].floor = 1 /\ conns[p].ret = 2

\* the callers of mark_day_complete whose write is committed
Committed == {q \in DOMAIN conns : conns[q].op = "mark_day_complete" /\ conns[q].wrote
                                   /\ conns[q].pc \in {"close", "done"}}

\* the triples a reader may meet: the one stored when the callers started, and those
\* written by a mark_day_complete that is committed
WholeTriples == {Triple(conns[p].start) : p \in DOMAIN conns} \cup {conns[q].ret : q \in Committed}

\* the callers of mark_day_complete
Markers == {p \in DOMAIN conns : conns[p].op = "mark_day_complete"}

\* C25: whatever the interleaving, a get_streak returns, and the table holds, the triple
\* stored at the start or the triple one committed mark_day_complete wrote; and when
\* all the concurrent mark_day_complete calls are for the same day, each returns, and
\* the table is left with, what a single call for that day gives: the streak is not
\* incremented twice.
C25_NoPartialStreakTransition ==
    /\ \A p \in DOMAIN conns :
          (conns[p].op = "get_streak" /\ conns[p].pc \in {"end", "done"}) => conns[p].ret \in WholeTriples
    /\ Triple(StreakRow(DB, ConcKey)) \in WholeTriples
    /\ \A d \in MarkDays :
          (AllDone /\ Markers # {} /\ \A p \in Markers : conns[p].day = d) =>
              /\ \A p \in Markers : conns[p].ret = Transition(conns[p].start, d)
              /\ \A p \in Markers : Triple(StreakRow(DB, ConcKey)) = Transition(conns[p].start, d)

\* two mark_day_complete calls for the day after the streak's last day both read the
\* row before either committed and both wrote; the streak went from 1 to 2, and a
\* get_streak returned (2, 3, day)
C25_Witness ==
    /\ AllDone
    /\ Cardinality({p \in Markers : conns[p].wrote /\ conns[p].day = Calendar[2]}) = 2
    /\ \A p \in DOMAIN conns : conns[p].start.last_day = Calendar[1]
    /\ Triple(StreakRow(DB, ConcKey)) = <<2, 3, Calendar[2]>>
    /\ \E p \in DOMAIN conns : conns[p].op = "get_streak" /\ conns[p].ret = <<2, 3, Calendar[2]>>

(***************************************************************************)
(* Claims about the leaderboard, checked under SpecBoard.                  *)
(***************************************************************************)
\* entry e = (user, current, best, name) is to come before entry f
Ranked(e, f) == e[2] > f[2] \/ (e[2] = f[2] /\ (e[3] > f[3] \/ (e[3] = f[3] /\ e[1] < f[1])))

\* 'User <id>' of a user id of two digits
UserLabel(u) == <<"U", "s", "e", "r", " ", Digits[(u \div 10) + 1], Digits[(u % 10) + 1]>>

\* the users with a streaks row in the chat
Streakers(chat_id) == {k[2] : k \in {x \in DOMAIN streaks : x[1] = chat_id}}

\* C26: get_top_streaks(chat, limit) returns at most limit entries (all there are, when
\* fewer), each of another user with a streaks row in that chat, with that row's current
\* and best streak; in the order current descending, best descending, user ascending,
\* ahead of every user of the chat left out; with the name stored for (chat, user), or
\* 'User <id>' when none is stored; and it changes no table.
C26_TopStreaks ==
    /\ [](call.op = "get_top_streaks" =>
            LET chat_id == call.key[1]
                out == call.ret
                n == Len(call.ret)
                all == Cardinality(Streakers(call.key[1]))
            IN  /\ call.raised = "none"
                /\ n <= call.arg
                /\ n = (IF all < call.arg THEN all ELSE call.arg)
                /\ \A i \in 1..n :
                      /\ <<chat_id, out[i][1]>> \in DOMAIN streaks
                      /\ out[i][2] = streaks[<<chat_id, out[i][1]>>].current_streak
                      /\ out[i][3] = streaks[<<chat_id, out[i][1]>>].best_streak
                      /\ IF <<chat_id, out[i][1]>> \in DOMAIN user_names
                         THEN out[i][4] = user_names[<<chat_id, out[i][1]>>]
                         ELSE out[i][4] = UserLabel(out[i][1])
                /\ \A i, j \in 1..n : i < j => Ranked(out[i], out[j])
                /\ \A u \in Streakers(chat_id) \ {out[i][1] : i \in 1..n} :
                      \A i \in 1..n :
                          Ranked(out[i], <<u, streaks[<<chat_id, u>>].current_streak,
                                           streaks[<<chat_id, u>>].best_streak>>))
    /\ [][call'.op # "get_top_streaks"]_tables

\* the top 2 of three users: user 23 leads without a stored name; users 21 and 22 tie
\* in both streaks and 21 comes first, 22 is left out; the same user id has a row and
\* a name in another chat
C26_Witness ==
    /\ call.op = "get_top_streaks" /\ call.key[1] = BoardChat /\ call.arg = 2
    /\ call.ret = << <<23, 2, 2, UserLabel(23)>>, <<21, 1, 2, "Ada">> >>
    /\ <<BoardChat, 22>> \in DOMAIN streaks /\ streaks[<<BoardChat, 22>>].best_streak = 2
    /\ <<OtherChat, 21>> \in DOMAIN streaks /\ <<OtherChat, 21>> \in DOMAIN user_names

(***************************************************************************)
(* Claims about the quiz results, checked under SpecScore.                 *)
(***************************************************************************)
\* C27: get_score of a key returns how many record_result calls of that key with
\* is_correct true returned, and how many record_result calls of that key returned;
\* (0, 0) when none did. The other key's calls are not counted.
C27_ScoreCountsOwnEvents ==
    (call.op = "get_score") =>
        /\ call.raised = "none"
        /\ call.ret = IF call.key \in DOMAIN past.scored THEN past.scored[call.key] ELSE <<0, 0>>

\* a get_score returned (1, 2) while the other user has a wrong answer recorded
C27_Witness ==
    /\ call.op = "get_score" /\ call.ret = <<1, 2>>
    /\ \E k \in DOMAIN past.scored : k # call.key /\ past.scored[k] = <<0, 1>>

\* C28: a record_result changes nothing but the results log, to which it appends one
\* row, of its key and its verdict: daily_progress, streaks, user_prefs and user_names
\* are as before, for every key.
C28_RecordResultOnlyAppends ==
    [][call'.op = "record_result" =>
          /\ UNCHANGED <<daily_progress, streaks, user_prefs, user_names>>
          /\ results' = Append(results, [chat_id |-> call'.key[1], user_id |-> call'.key[2],
                                         correct |-> IF call'.arg THEN 1 ELSE 0])]_tables

\* a second result was recorded for a user who has a count, a streak, a reminder and a name
C28_Witness ==
    /\ call.op = "record_result" /\ call.raised = "none" /\ Len(results) = 2
    /\ daily_progress # EmptyTable /\ streaks # EmptyTable
    /\ user_prefs # EmptyTable /\ user_names # EmptyTable


\* the zone names the claims take as known to the zone database
KnownZones == {"Asia/Kolkata", "Europe/Paris"}

\* C29: a /notify with a well-formed time and a zone name that is not known returns
\* normally, persists the row with the name as given and leaves the daily job of the
\* key, set in Asia/Kolkata, and its test job; every job in the queue whose payload
\* names such a zone is set in Asia/Kolkata; and a run of such a job that meets no
\* database fault returns, having asked or not by the count for the day.
C29_UnknownZoneFallsBack ==
    /\ (call.op = "notify" /\ call.fault = "none" /\ ZoneArg(call.arg) \notin KnownZones) =>
          /\ call.raised = "none" /\ call.ret = "set"
          /\ RowOf(call.key, call.arg) \in NotifyRows(DB)
          /\ CopiesIn(TimerOf(RowOf(call.key, call.arg)), jobs) = 1
          /\ TimerOf(RowOf(call.key, call.arg)).time[3] = "Asia/Kolkata"
          /\ CopiesIn(ProbeOf(RowOf(call.key, call.arg)), jobs) >= 1
    /\ \A j \in BagToSet(jobs) :
          /\ j.data.tz \notin KnownZones
          /\ j.trigger = "daily" => j.time[3] = "Asia/Kolkata"
    /\ (call.op = "_daily_job" /\ call.fault = "none") =>
          /\ call.raised = "none"
          /\ call.ret \in {"ask", "quota"}
          /\ (call.ret = "quota") <=> (call.before >= 5)
          /\ call.before = Answered(call.key, call.arg)

\* C29 witness: the daily job of a reminder set with zone "Mars/Phobos" has run with
\* the day's count at the quota and asked nothing, the test job having run before
C29_Witness ==
    /\ call.op = "_daily_job" /\ call.ret = "quota" /\ call.raised = "none"
    /\ \E row \in NotifyRows(DB) : <<row[1], row[2]>> = call.key /\ row[5] = "Mars/Phobos"
    /\ BagCardinality(jobs) = 1
    /\ \E j \in BagToSet(jobs) : j.data.tz = "Mars/Phobos" /\ j.time[3] = "Asia/Kolkata"


\* the times among those sent that are two integers around one ":", the first within
\* 0..23 and the second within 0..59
TimesInRange ==
    { <<"0", "7", ":", "3", "0">>, <<"2", "3", ":", "0", "5">>, <<"+", "7", ":", "5">> }

\* this /notify was sent with a time that is malformed or out of range
BadTime(c) == c.op = "notify" /\ Len(c.arg) > 0 /\ c.arg[1] \notin TimesInRange

\* C30: a /notify whose time is malformed or out of range answers that the time is
\* invalid, and no step of it changes user_prefs or the queue of jobs: the row of the
\* user and the jobs are those of before the request.
C30_BadTimeIsRejected ==
    /\ [](BadTime(call) => call.ret = "invalid" /\ call.raised = "none")
    /\ [][~BadTime(call')]_<<user_prefs, jobs>>

\* C30 witness: /notify 24:00 was refused while the user had the reminder 23:05
\* Europe/Paris and its daily job, both still there
C30_Witness ==
    /\ BadTime(call) /\ call.ret = "invalid"
    /\ call.arg[1] = <<"2", "4", ":", "0", "0">>
    /\ <<1, 21, 23, 5, "Europe/Paris">> \in NotifyRows(DB)
    /\ call.before.daily = 1
    /\ CopiesIn(TimerOf(<<1, 21, 23, 5, "Europe/Paris">>), jobs) = 1


\* the four variables the committer requires, each set and not empty
Configured(env) ==
    \A name \in {"GITHUB_TOKEN", "GITHUB_REPO", "GH_USER_NAME", "GH_USER_EMAIL"} :
        name \in DOMAIN env /\ env[name] # ""

\* C31: make_daily_commits_if_configured never raises and always returns a text; without
\* the requests package or with one of the four variables missing the text says so and
\* no PUT was made; when a PUT fails the text is "Commit failed", and the PUTs stop
\* there; otherwise n PUTs were made and the text says "Committed".
C31_CommitNeverRaises ==
    call.op = "make_daily_commits_if_configured" =>
        /\ call.raised = "none"
        /\ Len(call.ret) > 0
        /\ ~call.arg.requests => call.ret[1] = "Dependency missing" /\ call.trace = << >>
        /\ (call.arg.requests /\ ~Configured(call.arg.env)) =>
              /\ call.ret[1] = "GitHub committer not configured"
              /\ call.trace = << >>
        /\ (call.arg.requests /\ Configured(call.arg.env)) =>
              IF \E i \in 1..call.arg.n : call.arg.web[i] # "201"
              THEN /\ call.ret[1] = "Commit failed"
                   /\ Len(call.trace) = CHOOSE i \in 1..call.arg.n :
                                            /\ call.arg.web[i] # "201"
                                            /\ \A j \in 1..(i - 1) : call.arg.web[j] = "201"
              ELSE call.ret[1] = "Committed" /\ Len(call.trace) = call.arg.n

\* C31 witness: configured and with the package, the third of five PUTs met a
\* connection error, and the call returned "Commit failed" after three PUTs
C31_Witness ==
    /\ call.op = "make_daily_commits_if_configured"
    /\ call.arg.n = 5 /\ call.arg.requests /\ Configured(call.arg.env)
    /\ call.arg.web[1] = "201" /\ call.arg.web[2] = "201" /\ call.arg.web[3] = "ConnectionError"
    /\ call.ret[1] = "Commit failed" /\ call.raised = "none" /\ Len(call.trace) = 3


\* how often the commits of key k's day were called for
PushedFor(k, day) == IF <<k[1], k[2], day>> \in DOMAIN past.pushed THEN past.pushed[<<k[1], k[2], day>>] ELSE 0

\* C32: for each (chat, user, day) the day's commits are called for at most once, and
\* exactly once when the day's count has reached 5.
C32_CommitsOncePerDay ==
    \A k \in Keys, day \in CalendarDays :
        /\ PushedFor(k, day) <= 1
        /\ Answered(k, day) >= 5 => PushedFor(k, day) = 1


\* C33: through /daily, the buttons, /notify and the reminder's jobs, whenever a key's
\* streak row names a last completed day, the key's count for that day is at least 5.
C33_MarkedOnlyAtQuota ==
    \A k \in DOMAIN streaks : Answered(k, streaks[k].last_day) >= 5

\* C33 witness: the user's streak is 2 with the second day as last completed day, and
\* that day's count is exactly 5
C33_Witness ==
    /\ <<1, 21>> \in DOMAIN streaks
    /\ streaks[<<1, 21>>] = [current_streak |-> 2, best_streak |-> 2, last_day |-> Calendar[2]]
    /\ Answered(<<1, 21>>, Calendar[2]) = 5


\* the callback data, among those sent, that name an option by an integer
AnswerData == { <<"c", "s", ":", "o", "p", "t", ":", "0">>, <<"c", "s", ":", "o", "p", "t", ":", "3">>, <<"c", "s", ":", "o", "p", "t", ":", "1", ":", "2">> }

\* a button press that counts: an answer, sent while the user's question is pending
Counted(c, ud) ==
    /\ c.op = "cs_cb_handler" /\ c.raised = "none" /\ c.ret = "answered"
    /\ c.arg.data \in AnswerData
    /\ c.key[2] \in ud

\* C34: every step that changes daily_progress or streaks is the handling of an answer
\* (cs:opt:<i>) sent while a question is pending for the user: /daily, cs:next, job runs,
\* callbacks without a pending question, with another action or with an option that is
\* no integer change neither table.  A /daily or cs:next that finds the day's count at 5
\* or more asks no question and stores none.
C34_OnlyAnswersCount ==
    /\ []((call.op = "daily" /\ call.raised = "none" /\ call.before >= 5) => call.ret = "done")
    /\ []((call.op = "cs_cb_handler" /\ call.raised = "none" /\ call.arg.data = <<"c", "s", ":", "n", "e", "x", "t">>
             /\ call.before >= 5) => call.ret \in {"done", "expired"})
    /\ []((call.op = "cs_cb_handler" /\ call.raised = "none" /\ call.arg.data \notin AnswerData)
             => call.ret # "answered")
    /\ [][Counted(call', user_data)]_<<daily_progress, streaks>>
    /\ [][(call'.op \in {"daily", "cs_cb_handler"} /\ call'.raised = "none" /\ call'.ret = "done")
             => UNCHANGED user_data]_<<daily_progress, streaks, user_data>>

\* C34 witness: after a restart, an answer for the second day arrived with no question
\* pending and was not counted, the day's count staying at 4
C34_Witness ==
    /\ call.op = "cs_cb_handler" /\ call.ret = "expired"
    /\ call.arg.data \in AnswerData /\ call.arg.today = Calendar[2]
    /\ call.before = 4 /\ Answered(call.key, Calendar[2]) = 4
    /\ user_data = {}
    /\ mcq = NoMcq


\* day a of the calendar is earlier than day b
Earlier(a, b) == CalendarIndex(a) < CalendarIndex(b)

\* C35: a mark_day_complete with a day earlier than the row's last completed day
\* returns and stores a current streak of 1, the row's best streak and that earlier day;
\* and a mark_day_complete with the day after the row's last day, on a row whose
\* current streak is 1, returns and stores a current streak of 2.
C35_EarlierDayResets ==
    (call.op = "mark_day_complete" /\ IsCalendarDay(call.arg) /\ call.before.row.last_day # None) =>
        /\ Earlier(call.arg, call.before.row.last_day) =>
              /\ call.raised = "none"
              /\ call.ret = <<1, call.before.row.best_streak, call.arg>>
              /\ streaks[call.key] = [current_streak |-> 1, best_streak |-> call.before.row.best_streak,
                                      last_day |-> call.arg]
        /\ (call.before.row.current_streak = 1 /\ CalendarIndex(call.arg) > 1
              /\ call.before.row.last_day = Calendar[CalendarIndex(call.arg) - 1]) =>
              /\ call.raised = "none"
              /\ call.ret[1] = 2 /\ call.ret[3] = call.arg
              /\ streaks[call.key].current_streak = 2

\* C35 witness: with a best streak of 3 ending 2024-01-03 or later, 2023-12-31 was marked,
\* which left (1, 3, 2023-12-31), and the mark of 2024-01-01 then returned (2, 3, 2024-01-01)
C35_Witness ==
    /\ call.op = "mark_day_complete" /\ call.arg = Calendar[2]
    /\ call.before.row = [current_streak |-> 1, best_streak |-> 3, last_day |-> Calendar[1]]
    /\ call.ret = <<2, 3, Calendar[2]>>


\* the daily jobs of queue q that carry the timer name of key k
TimersOf(q, k) == [j \in {x \in BagToSet(q) : x.trigger = "daily" /\ x.name = TimerName(k)} |-> q[j]]

\* the persisted reminder rows of key k
RowsOf(db, k) == {row \in NotifyRows(db) : <<row[1], row[2]>> = k}

\* pairs of ids whose digits run together in several ways; group chats have negative ids
NamedPairs == {<<1, 2>>, <<1, 21>>, <<12, 1>>, <<1, 12>>, <<11, 2>>, <<112, 0>>, <<-1, 2>>, <<-11, 2>>, <<-100, 5>>}

\* C36: the timer names of distinct keys are distinct, every daily job carries the name
\* of the key in its payload, and every step of a /notify or /unnotify of one key leaves
\* each other key's daily jobs and persisted reminder row as they were.
C36_OtherKeysUntouched ==
    /\ [](/\ \A k1, k2 \in Keys \cup NamedPairs : JobName(k1) = JobName(k2) => k1 = k2
          /\ \A j \in BagToSet(jobs) :
                j.trigger = "daily" => j.name = TimerName(<<j.chat_id, j.data.user_id>>))
    /\ [][call'.op \in {"notify", "unnotify"} =>
             \A k \in Keys \ {call'.key} :
                /\ TimersOf(jobs', k) = TimersOf(jobs, k)
                /\ RowsOf([user_prefs |-> user_prefs'], k) = RowsOf([user_prefs |-> user_prefs], k)
       ]_<<user_prefs, jobs>>

\* C36 witness: user (12, 1) cancelled their reminder while user (1, 21) had the
\* reminder 23:05 Europe/Paris, whose row and daily job are still there
C36_Witness ==
    /\ call.op = "unnotify" /\ call.key = <<12, 1>> /\ call.ret = TRUE
    /\ TimersOf(jobs, <<12, 1>>) = EmptyBag
    /\ <<1, 21, 23, 5, "Europe/Paris">> \in NotifyRows(DB)
    /\ CopiesIn(TimerOf(<<1, 21, 23, 5, "Europe/Paris">>), jobs) = 1


\* the schema init_db found has the five tables, each with its required columns
FullFound ==
    \A i \in 1..Len(TableNames) :
        /\ TableNames[i] \in DOMAIN boot.found.schema
        /\ RequiredCols(TableNames[i]) \subseteq boot.found.schema[TableNames[i]]

\* C37: when the integrity probe of init_db answered ok, init_db makes no pass of its
\* rename and delete loops and the database file and its sibling stay as found; when the
\* schema found is complete, and whenever the run before returned, no step of init_db
\* changes a table, the schema or the files.
C37_HealthyDatabaseIsKept ==
    /\ [](boot.found.ok =>
            /\ boot.renames = 0 /\ boot.deletes = 0
            /\ boot.pc \in {"connect", "up"}
            /\ disk.db = "sqlite" /\ disk.sibling = boot.found.sibling)
    /\ [][(boot.found.ok /\ (FullFound \/ boot.again)) => UNCHANGED <<tables, disk>>]_<<tables, disk>>

\* C37 witness: init_db returned a second time, on a database with rows whose results
\* table has a column more than required, and the rows are there
C37_Witness ==
    /\ boot.pc = "up" /\ boot.again /\ boot.found.ok
    /\ boot.found.schema = WideSchema /\ disk.schema = WideSchema
    /\ results = SampleDB.results /\ streaks = SampleDB.streaks /\ user_prefs = SampleDB.user_prefs


\* the keys of user_prefs whose row has an hour, a minute and a zone name
Complete == {k \in DOMAIN user_prefs : \A col \in {"notify_hour", "notify_minute", "tz"} : user_prefs[k][col] # << >>}

\* the rows a finished enumeration gave
Yielded == {call.ret[i] : i \in 1..Len(call.ret)}

\* C38: an iter_all_notify_prefs that is run to its end yields one row for each key whose
\* stored row has no NULL among hour, minute and zone name, with the stored values, and
\* none for any other key; for a key whose reminder was set it is what was set last.
C38_EnumerationIsCurrent ==
    (call.op = "iter_all_notify_prefs" /\ call.fault = "none" /\ call.arg > Cardinality(Complete)) =>
        /\ call.raised = "none"
        /\ Len(call.ret) = Cardinality(Complete)
        /\ {<<row[1], row[2]>> : row \in Yielded} = Complete
        /\ \A row \in Yielded :
              user_prefs[<<row[1], row[2]>>] =
                  [notify_hour |-> <<row[3]>>, notify_minute |-> <<row[4]>>, tz |-> <<row[5]>>]
        /\ \A k \in DOMAIN past.told : <<k[1], k[2]>> \o past.told[k] \in Yielded

\* C38 witness: an enumeration gave the two reminders set since the start, one of them
\* set twice, and not the row that has no hour
C38_Witness ==
    /\ call.op = "iter_all_notify_prefs" /\ call.fault = "none" /\ Len(call.ret) = 2
    /\ <<7, 7>> \in DOMAIN user_prefs /\ user_prefs[<<7, 7>>].notify_hour = << >>
    /\ Yielded = {<<1, 21, 23, 30, "Asia/Kolkata">>, <<12, 1, 7, 30, "Asia/Kolkata">>}


\* the count the list gives for a date: that of the last entry of the date, 0 without one
CountOn(contribs, date) ==
    LET at == {i \in 1..Len(contribs) : contribs[i].date = date}
    IN  IF at = {} THEN 0 ELSE contribs[CHOOSE i \in at : \A j \in at : j <= i].count

\* C39: a call of generate_mcq_for_date returns: its loop is left and the function returns
\* whenever it runs; what it returns is 4 options, no two equal and none negative, and
\* the option at correct_index is the count of the picked date, 0 when the list has no
\* entry for the date.
C39_FourDistinctOptions ==
    /\ [](call.op = "generate_mcq_for_date" =>
            /\ Len(call.ret.options) = 4
            /\ \A i, j \in 1..4 : call.ret.options[i] = call.ret.options[j] => i = j
            /\ \A i \in 1..4 : call.ret.options[i] >= 0
            /\ call.ret.correct_index \in 0..3
            /\ call.ret.options[call.ret.correct_index + 1] = CountOn(call.arg.contribs, call.arg.pick_date))
    /\ (mcq.pc = "loop") ~> (mcq.pc = "idle")

\* C39 witness: a question for a date with 2 contributions, in a list that names the date
\* twice, whose distractors include the 0 that three of the draws are cut to
C39_Witness ==
    /\ call.op = "generate_mcq_for_date"
    /\ call.arg = [contribs |-> <<[date |-> 1, count |-> 25], [date |-> 1, count |-> 2]>>, pick_date |-> 1]
    /\ call.ret.options = <<0, 22, 2, 1>>
    /\ call.ret.correct_index = 2

=============================================================================
